---- MODULE Spec2Model ----
(***************************************************************************)
(* Campus parking dashboard (JunhoHwoang/HackOHIO-2025).                   *)
(*                                                                         *)
(* The module models                                                       *)
(*   - the API server's occupancy resolver (summarizeLot, summarizeStalls, *)
(*     createSupabaseOnlyLot) and the snapshot builder of                  *)
(*     fetchSupabaseData                            (src/api/server.js),   *)
(*   - the process-wide cache of the external source and the asynchronous  *)
(*     GET /api/lots handler that awaits it         (src/api/server.js),   *)
(*   - the space-to-lot spatial joins of the web map and of the seed       *)
(*     script (src/web/src/components/MapView.tsx, src/unnamed/part_006).  *)
(*                                                                         *)
(* JavaScript values are encoded as follows.  An optional string is a      *)
(* string, with the two sentinels Undefined and Null.  An optional number  *)
(* or object is a sequence: Nil (<<>>) for null/undefined, <<v>> for v.    *)
(***************************************************************************)
EXTENDS Integers, Sequences, FiniteSets, TLC

VARIABLES
    \* ---- server state (src/api/server.js) ----
    lots,               \* stored lot records                  (line 164)
    stallsByLot,        \* lot id -> manual stalls             (line 165)
    capacity,           \* lot id -> capacity log              (line 166)
    supabase,           \* is the external client configured   (line 53)
    supabaseLotsCache,  \* { fetchedAt, list }                 (line 59)
    now,                \* Date.now()
    pc,                 \* per request: position in GET /api/lots
    startedAt,          \* per request: `now` captured at line 80
    reply,              \* per request: the external source's answer in flight
    response,           \* per request: what res.json / res.status sent
    snapshots,          \* lot id -> log of slot observations  (line 167)
    \* ---- geometry kernel (pure-function specification) ----
    argGeometry,        \* the geometry argument of geometryContainsPoint
    argPoint,           \* its point argument
    contains,           \* what the call came back with
    \* ---- resolver inputs/outputs (pure-function specification) ----
    supaData,           \* the snapshot argument of summarizeLot
    summary,            \* the LotSummary summarizeLot returned
    stallCounts,        \* the Counts summarizeStalls returned
    onlyLot,            \* the LotSummary createSupabaseOnlyLot returned
    \* ---- spatial joins ----
    spacesRaw,          \* space features
    lotsGeo,            \* lot features, in file order
    knownOsmIds,        \* osm ids of the lot summaries the map knows
    occupancy,          \* live feed: sequence of slots {id, occupied}
    occupancyByLot,     \* MapView's per-lot counts
    seedLots,           \* the seed script's generated lotsConfig
    \* ---- the data directory: Nil when the file does not exist, else <<value>> ----
    lotsFile,           \* lots.json: the list of lots
    stallsFile,         \* stalls.json: lot id -> stalls
    capacityFile,       \* capacity.json: lot id -> capacity log
    snapshotsFile,      \* snapshots.json: lot id -> slot observations
    imagesFile,         \* images.json: file name -> image record
    \* ---- the web client ----
    lotSummaries,       \* the lot summaries the client loaded
    occupancyFetchedAt, \* MapView's occupancyFetchedAt: Null or the feed's string
    lotSnapshots,       \* the store's lotSnapshots: summary id -> {counts, observedAt}
    effectPending,      \* TRUE while the snapshot-sync effect is scheduled to run
    detailCounts        \* what LotDetailMap passed to onCountsChange

vars == << lots, stallsByLot, capacity, supabase, supabaseLotsCache, now, pc,
           startedAt, reply, response, supaData, summary, stallCounts, onlyLot,
           spacesRaw, lotsGeo, knownOsmIds, occupancy, occupancyByLot, seedLots,
           snapshots, argGeometry, argPoint, contains, lotsFile, stallsFile,
           capacityFile, snapshotsFile, imagesFile,
           lotSummaries, occupancyFetchedAt, lotSnapshots, effectPending, detailCounts >>

serverVars == << lots, stallsByLot, capacity, supabase, supabaseLotsCache, now,
                 pc, startedAt, reply, response >>
resolveVars == << supaData, summary, stallCounts, onlyLot >>
joinVars == << spacesRaw, lotsGeo, knownOsmIds, occupancy, occupancyByLot, seedLots >>
historyVars == << snapshots >>
kernelVars == << argGeometry, argPoint, contains >>
fileVars == << lotsFile, stallsFile, capacityFile, snapshotsFile, imagesFile >>
viewVars == << lotSummaries, occupancyFetchedAt, lotSnapshots, effectPending, detailCounts >>

------------------------------------------------------------------------------
(* JavaScript value encoding *)

Undefined == "<undefined>"
Null == "<null>"
Nil == <<>>

\* `x == null` on an optional string
IsNullish(s) == s \in {Undefined, Null}
\* truthiness of an optional string
Truthy(s) == s \notin {Undefined, Null, ""}
\* a ?? b on optional numbers / objects
Coalesce(a, b) == IF a # Nil THEN a ELSE b
\* a ?? b on optional strings
CoalesceStr(a, b) == IF IsNullish(a) THEN b ELSE a
\* Number(v) || 0 : null -> 0, undefined -> NaN -> 0, n -> n (0 stays 0)
NumberOrZero(v) == IF v = Nil THEN 0 ELSE v[1]
Max(a, b) == IF a >= b THEN a ELSE b
Min(a, b) == IF a <= b THEN a ELSE b

\* the last index i of s with P, as a set-based search (0 when there is none)
LastIndex(s, S) == IF S = {} THEN 0 ELSE CHOOSE i \in S : \A j \in S : j <= i
FirstIndex(s, S) == IF S = {} THEN 0 ELSE CHOOSE i \in S : \A j \in S : i <= j

\* Array.from(new Set(s)): first occurrences, in order
RECURSIVE Dedup(_)
Dedup(s) ==
    IF s = <<>> THEN <<>>
    ELSE LET front == Dedup(SubSeq(s, 1, Len(s) - 1))
             last == s[Len(s)]
         IN IF \E i \in DOMAIN front : front[i] = last THEN front
            ELSE Append(front, last)

RECURSIVE SeqsUpTo(_, _)
SeqsUpTo(S, n) ==
    IF n = 0 THEN {<<>>}
    ELSE LET shorter == SeqsUpTo(S, n - 1)
         IN shorter \cup {Append(s, x) : s \in {t \in shorter : Len(t) = n - 1}, x \in S}

------------------------------------------------------------------------------
(* Program constants *)

SUPABASE_CACHE_MS == 60000

PROTECTED_OSM_IDS == {"way/38911611", "way/444966505", "way/39115920", "way/275147287"}

------------------------------------------------------------------------------
(* summarizeStalls, server.js:428-435 *)

summarizeStalls(stalls) ==
    LET total == Len(stalls)
        occ == Cardinality({i \in DOMAIN stalls : stalls[i].status = "occupied"})
        unk == Cardinality({i \in DOMAIN stalls :
                              stalls[i].status # "occupied" /\ stalls[i].status # "open"})
    IN [total |-> total, occupied |-> occ, open |-> total - occ - unk, unknown |-> unk]

------------------------------------------------------------------------------
(* String conversions, tabulated over the strings the model uses *)

\* location.replace(/\W+/g, "-"), server.js:453
ReplaceNonWord(loc) ==
    CASE loc = "way/38911611" -> "way-38911611"
      [] loc = "way/444966505" -> "way-444966505"
      [] loc = "way/39115920" -> "way-39115920"
      [] loc = "way/275147287" -> "way-275147287"
      [] loc = "way/1" -> "way-1"
      [] loc = "way/2" -> "way-2"
      [] OTHER -> loc

\* slugify, server.js:457-462
slugify(str) ==
    CASE ~Truthy(str) -> ""
      [] str = "Lot A" -> "lot-a"
      [] str = "Lot B" -> "lot-b"
      [] str = "Lot X" -> "lot-x"
      [] str = "lot x" -> "lot-x"
      [] str = "Tuttle Garage" -> "tuttle-garage"
      [] str = "lot" -> "lot"
      [] OTHER -> str

\* lotName?.toLowerCase().includes("garage"), server.js:578
IncludesGarage(lotName) == lotName \in {"Tuttle Garage"}

\* supabaseLotId, server.js:452-455
supabaseLotId(row) ==
    IF Truthy(row.location) THEN "lot-" \o ReplaceNonWord(row.location)
    ELSE "supabase-" \o slugify(IF Truthy(row.lot_name) THEN row.lot_name ELSE "lot")

\* derivePricingInfo, server.js:574-580; absent tags are NoTags
NoTags == [pricing |-> Undefined, fee |-> Undefined]

derivePricingInfo(tags, lotName) ==
    IF Truthy(tags.pricing) THEN tags.pricing
    ELSE IF tags.fee = "no" THEN "No fee (permit enforcement applies)."
    ELSE IF tags.fee = "yes" THEN "Paid parking (rates may vary)."
    ELSE IF IncludesGarage(lotName) THEN "Garage rates apply (hourly fees, daily max)."
    ELSE "Check on-site signage for pricing details."

------------------------------------------------------------------------------
(* The snapshot fetchSupabaseData builds from the four query results,      *)
(* server.js:98-156.  A raw answer is                                      *)
(*   [lotRows, spotRows, accessRows, permitRows].                          *)

\* permitTypeMap.get(permit_id), lines 103-108: the last row with that id
permitCode(permitRows, permit_id) ==
    LET S == {i \in DOMAIN permitRows : permitRows[i].permit_id = permit_id}
    IN IF S = {} THEN Undefined
       ELSE LET r == permitRows[LastIndex(permitRows, S)]
            IN IF Truthy(r.code) THEN r.code
               ELSE IF Truthy(r.name) THEN r.name ELSE Null

\* Array.from(permitsByLotName.get(lot_name) || new Set()), lines 110-117, 138, 144
RECURSIVE permitCodes(_, _, _)
permitCodes(accessRows, permitRows, lot_name) ==
    IF accessRows = <<>> THEN <<>>
    ELSE LET front == permitCodes(SubSeq(accessRows, 1, Len(accessRows) - 1),
                                  permitRows, lot_name)
             row == accessRows[Len(accessRows)]
             code == permitCode(permitRows, row.permit_id)
         IN IF Truthy(row.lot_name) /\ row.lot_name = lot_name /\ Truthy(code)
            THEN Dedup(Append(front, code))
            ELSE front

\* spotsByLotName.get(lot_name) || [], lines 119-131, 145
spotsOf(spotRows, lot_name) ==
    LET hit(r) == Truthy(r.lot_name) /\ r.lot_name = lot_name
    IN SelectSeq(spotRows, hit)

\* spotStatsByLotName.get(lot_name) || { Number(capacity)||0, Number(occupancy)||0 },
\* lines 123-126, 134-137
statsOf(spotRows, row) ==
    LET mine == spotsOf(spotRows, row.lot_name)
    IN IF mine # <<>>
       THEN [total |-> Len(mine),
             occupied |-> Cardinality({i \in DOMAIN mine : mine[i].is_filled})]
       ELSE [total |-> NumberOrZero(row.capacity),
             occupied |-> NumberOrZero(row.occupancy)]

\* one element of `list`, lines 133-147
snapshotEntry(raw, row) ==
    [id |-> supabaseLotId(row),
     row |-> row,
     stats |-> statsOf(raw.spotRows, row),
     permits |-> permitCodes(raw.accessRows, raw.permitRows, row.lot_name),
     spots |-> spotsOf(raw.spotRows, row.lot_name)]

snapshotList(raw) == [i \in DOMAIN raw.lotRows |-> snapshotEntry(raw, raw.lotRows[i])]

\* byLocation.get(key), lines 149-152: the last entry whose truthy location is key
byLocation(list, key) ==
    LastIndex(list, {i \in DOMAIN list :
                        Truthy(list[i].row.location) /\ list[i].row.location = key})

\* byName.get(key), lines 150-153
byName(list, key) ==
    LastIndex(list, {i \in DOMAIN list :
                        Truthy(list[i].row.lot_name) /\ list[i].row.lot_name = key})

\* supaData ? byLocation.get(osmId) || byName.get(l.name) : null, lines 304-306.
\* The snapshot argument is Nil (null) or <<[fetchedAt, list]>>; the result is
\* Nil or <<entry>>.
lookupEntry(l, data) ==
    IF data = Nil THEN Nil
    ELSE LET list == data[1].list
             i == byLocation(list, l.metadata.osmId)
             j == byName(list, l.name)
         IN IF i # 0 THEN <<list[i]>>
            ELSE IF j # 0 THEN <<list[j]>> ELSE Nil

\* osmId && PROTECTED_OSM_IDS.has(osmId), line 307
isProtectedMut(l) == FALSE

isProtected(l) == Truthy(l.metadata.osmId) /\ l.metadata.osmId \in PROTECTED_OSM_IDS


------------------------------------------------------------------------------
(* summarizeLot, server.js:301-420.                                        *)
(* A stored lot is [id, name, permit_types, metadata], its metadata        *)
(* [osmId, spaceCount, occupiedCount, pricing, tags].                      *)

GetOr(f, k) == IF k \in DOMAIN f THEN f[k] ELSE <<>>

\* the `supabase` provenance object written to metadata, lines 369-378 / 384-393
supabaseMeta(e) ==
    [lot_name |-> e.row.lot_name, location |-> e.row.location,
     capacity |-> e.row.capacity, occupancy |-> e.row.occupancy,
     spot_total |-> e.stats.total, spot_occupied |-> e.stats.occupied,
     permits |-> e.permits, spots |-> e.spots]

\* a merge that overwrites the stored permit types with the external ones
mergePermitsOverwrite(permitTypes, e) ==
    IF Len(e.permits) # 0 THEN e.permits ELSE permitTypes

\* lines 364-367 / 394-397: merged permit types
mergePermits(permitTypes, e) ==
    IF Len(e.permits) # 0 THEN Dedup(permitTypes \o e.permits) ELSE permitTypes

\* computeSeedCounts, lines 311-337
computeSeedCounts(l, stallsOfLot, capLog) ==
    LET md == l.metadata
        stallTotals == summarizeStalls(stallsOfLot)
        spaceCount == md.spaceCount
        occupiedCount == NumberOrZero(Coalesce(md.occupiedCount, <<0>>))
        useSeed == stallTotals.total = 0 /\ spaceCount # Nil /\ spaceCount[1] # 0
        open == Max(spaceCount[1] - occupiedCount, 0)
        localCounts ==
            IF useSeed
            THEN [total |-> spaceCount[1], occupied |-> occupiedCount, open |-> open,
                  unknown |-> Max(spaceCount[1] - open - occupiedCount, 0)]
            ELSE stallTotals
        newSpace == Coalesce(md.spaceCount, <<localCounts.total>>)
        newOcc == Coalesce(md.occupiedCount, <<localCounts.occupied>>)
        capEntry ==
            IF Len(capLog) # 0 THEN capLog[Len(capLog)]
            ELSE [capacity |-> newSpace[1], occupied |-> newOcc[1], source |-> "seed"]
        newPricing ==
            IF IsNullish(md.pricing) THEN derivePricingInfo(md.tags, l.name)
            ELSE md.pricing
    IN [counts |-> localCounts,
        latestCap |-> capEntry,
        metadata |-> [osmId |-> md.osmId, spaceCount |-> newSpace,
                      occupiedCount |-> newOcc, pricing |-> newPricing,
                      tags |-> md.tags, supabase |-> Nil]]

\* the external branch, lines 342-378
externalCounts(l, e) ==
    LET md == l.metadata
        \* Number(stats.total ?? row.capacity ?? metadata.spaceCount ?? 0):
        \* stats.total is always a number (lines 123, 135)
        capacityVal == e.stats.total
        occupiedVal == Min(e.stats.occupied, capacityVal)
    IN [counts |-> [total |-> capacityVal, occupied |-> occupiedVal,
                    open |-> Max(capacityVal - occupiedVal, 0), unknown |-> 0],
        latestCap |-> [capacity |-> capacityVal, occupied |-> occupiedVal,
                       source |-> "supabase"],
        metadata |-> [osmId |-> IF Truthy(md.osmId) THEN md.osmId
                                ELSE IF Truthy(e.row.location) THEN e.row.location
                                ELSE md.osmId,
                      spaceCount |-> <<capacityVal>>,
                      occupiedCount |-> <<occupiedVal>>,
                      pricing |-> CoalesceStr(e.row.pricing,
                                     CoalesceStr(md.pricing,
                                         derivePricingInfo(md.tags, l.name))),
                      tags |-> md.tags,
                      supabase |-> <<supabaseMeta(e)>>]]

\* the whole of summarizeLot: `data` is Nil or <<snapshot>>
summarizeLot(l, data, stallsMap, capacityMap) ==
    LET supaEntry == lookupEntry(l, data)
        external == supaEntry # Nil /\ ~isProtected(l)
        seed == computeSeedCounts(l, GetOr(stallsMap, l.id), GetOr(capacityMap, l.id))
        r == IF external THEN externalCounts(l, supaEntry[1]) ELSE seed
        md == IF external \/ supaEntry = Nil THEN r.metadata
              ELSE [r.metadata EXCEPT
                      !.supabase = <<supabaseMeta(supaEntry[1])>>,
                      \* line 398: pricing was already derived at lines 333-335
                      !.pricing = IF IsNullish(@)
                                  THEN CoalesceStr(supaEntry[1].row.pricing,
                                           derivePricingInfo(l.metadata.tags, l.name))
                                  ELSE @]
    IN [id |-> l.id,
        name |-> l.name,
        permit_types |-> IF supaEntry # Nil THEN mergePermits(l.permit_types, supaEntry[1])
                         ELSE l.permit_types,
        latestCap |-> r.latestCap,
        counts |-> r.counts,
        pricing |-> CoalesceStr(md.pricing, Null),
        metadata |-> md]

\* createSupabaseOnlyLot, server.js:515-572 (no OSM feature indexed for the row)
createSupabaseOnlyLot(e) ==
    LET capacityVal == e.stats.total
        occupiedVal == Min(e.stats.occupied, capacityVal)
        pricing == IF IsNullish(e.row.pricing) THEN derivePricingInfo(NoTags, e.row.lot_name)
                   ELSE e.row.pricing
    IN [id |-> e.id,
        name |-> e.row.lot_name,
        permit_types |-> IF Len(e.permits) # 0 THEN e.permits ELSE <<"Visitor">>,
        latestCap |-> [capacity |-> capacityVal, occupied |-> occupiedVal,
                       source |-> "supabase"],
        counts |-> [total |-> capacityVal, occupied |-> occupiedVal,
                    open |-> Max(capacityVal - occupiedVal, 0), unknown |-> 0],
        pricing |-> pricing,
        metadata |-> [osmId |-> e.row.location, spaceCount |-> <<capacityVal>>,
                      occupiedCount |-> <<occupiedVal>>, pricing |-> pricing,
                      tags |-> NoTags, supabase |-> <<supabaseMeta(e)>>]]

------------------------------------------------------------------------------
(* The numbers of the geometry code are IEEE-754 doubles: every operation  *)
(* returns the double nearest to the exact result, ties to the even        *)
(* mantissa.  A double is [neg, m, e], standing for (-1)^neg * m * 2^e,    *)
(* with m odd and below 2^53, or m = 0.  A mantissa is a natural number    *)
(* kept as a list of digits in base 2^15, lowest digit first, <<>> for     *)
(* zero.                                                                   *)

Precision == 53
LimbBits == 15
LimbBase == 2 ^ LimbBits

\* the one element of a set {e : x \in {v}}: e with x standing for v
Only(S) == CHOOSE x \in S : TRUE

RECURSIVE natOf(_)
natOf(n) == IF n = 0 THEN <<>> ELSE <<n % LimbBase>> \o natOf(n \div LimbBase)

Abs(k) == IF k < 0 THEN -k ELSE k

RECURSIVE trim(_)
trim(a) ==
    IF a # <<>> /\ a[Len(a)] = 0 THEN trim(SubSeq(a, 1, Len(a) - 1)) ELSE a

RECURSIVE timesCarry(_, _, _)
timesCarry(a, k, carry) ==
    IF a = <<>> THEN natOf(carry)
    ELSE LET v == a[1] * k + carry
         IN <<v % LimbBase>> \o timesCarry(Tail(a), k, v \div LimbBase)

\* a * k for a digit k
timesSmall(a, k) == trim(timesCarry(a, k, 0))

RECURSIVE plusCarry(_, _, _)
plusCarry(a, b, carry) ==
    IF a = <<>> /\ b = <<>> THEN natOf(carry)
    ELSE LET x == IF a = <<>> THEN 0 ELSE a[1]
             y == IF b = <<>> THEN 0 ELSE b[1]
             v == x + y + carry
         IN <<v % LimbBase>>
              \o plusCarry(IF a = <<>> THEN a ELSE Tail(a),
                           IF b = <<>> THEN b ELSE Tail(b), v \div LimbBase)

plus(a, b) == plusCarry(a, b, 0)

RECURSIVE minusBorrow(_, _, _)
minusBorrow(a, b, borrow) ==
    IF a = <<>> THEN <<>>
    ELSE LET y == IF b = <<>> THEN 0 ELSE b[1]
             v == a[1] - y - borrow
         IN <<IF v < 0 THEN v + LimbBase ELSE v>>
              \o minusBorrow(Tail(a), IF b = <<>> THEN b ELSE Tail(b),
                             IF v < 0 THEN 1 ELSE 0)

\* a - b, for a >= b
minus(a, b) == trim(minusBorrow(a, b, 0))

\* -1, 0 or 1 as a < b, a = b, a > b
compare(a, b) ==
    IF Len(a) # Len(b) THEN (IF Len(a) < Len(b) THEN -1 ELSE 1)
    ELSE LET differ == {i \in DOMAIN a : a[i] # b[i]}
             top == CHOOSE i \in differ : \A j \in differ : j <= i
         IN IF differ = {} THEN 0 ELSE IF a[top] < b[top] THEN -1 ELSE 1

\* long division by a digit k, from the highest digit: quotient and remainder
RECURSIVE divideSmall(_, _)
divideSmall(a, k) ==
    IF a = <<>> THEN [q |-> <<>>, r |-> 0]
    ELSE LET high == divideSmall(Tail(a), k)
             v == high.r * LimbBase + a[1]
         IN [q |-> <<v \div k>> \o high.q, r |-> v % k]

\* a * 2^s
shiftLeft(a, s) ==
    IF a = <<>> THEN <<>>
    ELSE [i \in 1..(s \div LimbBits) |-> 0] \o timesSmall(a, 2 ^ (s % LimbBits))

\* floor(a / 2^s)
shiftRight(a, s) ==
    IF s \div LimbBits >= Len(a) THEN <<>>
    ELSE trim(divideSmall(SubSeq(a, (s \div LimbBits) + 1, Len(a)),
                          2 ^ (s % LimbBits)).q)

RECURSIVE digitBits(_)
digitBits(n) == IF n = 0 THEN 0 ELSE 1 + digitBits(n \div 2)

\* the number of binary digits of a
bitLength(a) ==
    IF a = <<>> THEN 0 ELSE LimbBits * (Len(a) - 1) + digitBits(a[Len(a)])

RECURSIVE lowZeros(_)
lowZeros(n) == IF n % 2 = 1 THEN 0 ELSE 1 + lowZeros(n \div 2)

\* the number of zero binary digits below the lowest one of a # 0
RECURSIVE trailingZeros(_)
trailingZeros(a) ==
    IF a[1] = 0 THEN LimbBits + trailingZeros(Tail(a)) ELSE lowZeros(a[1])

Zero == [neg |-> FALSE, m |-> <<>>, e |-> 0]

\* (-1)^neg * n * 2^e with an odd mantissa
reduced(neg, n, e) ==
    IF n = <<>> THEN Zero
    ELSE Only({[neg |-> neg, m |-> shiftRight(n, z), e |-> e + z] :
                    z \in {trailingZeros(n)}})

\* n = q * 2^s + rest: whether (n + f) / 2^s rounds to q + 1, where 0 < f < 1
\* when `sticky` and f = 0 otherwise
roundsUp(n, q, s, sticky) ==
    \E c \in {compare(minus(n, shiftLeft(q, s)), shiftLeft(<<1>>, s - 1))} :
        c = 1 \/ (c = 0 /\ (sticky \/ q[1] % 2 = 1))

\* the double nearest to (-1)^neg * (n + f) * 2^e, where 0 < f < 1 when
\* `sticky` and f = 0 otherwise; with `sticky`, n has more than 54 digits
roundToDouble(neg, n, e, sticky) ==
    Only({reduced(neg, IF t[1] > 0 /\ roundsUp(n, t[2], t[1], sticky)
                       THEN plus(t[2], <<1>>) ELSE t[2],
                  e + t[1]) :
            t \in {Only({<<s, shiftRight(n, s)>> :
                            s \in {Max(bitLength(n) - Precision, 0)}})}})

\* an integer as a double
doubleOf(k) == roundToDouble(k < 0, natOf(Abs(k)), 0, FALSE)

\* a * k for a double a and an integer k
timesInt(a, k) == roundToDouble(a.neg # (k < 0), timesSmall(a.m, Abs(k)), a.e, FALSE)

\* a / k for a double a and an integer k # 0: the quotient is exact, or it is
\* taken with 5 more digits, which are more than 54 binary digits
overInt(a, k) ==
    Only({roundToDouble(a.neg # (k < 0), trim(d.q), d.e, d.r # 0) :
            d \in {Only({IF exact.r = 0 THEN [q |-> exact.q, r |-> 0, e |-> a.e]
                         ELSE [e |-> a.e - 5 * LimbBits]
                                @@ divideSmall(shiftLeft(a.m, 5 * LimbBits), Abs(k)) :
                            exact \in {divideSmall(a.m, Abs(k))}})}})

\* x / d for integers x and d # 0
quotientOf(x, d) == overInt(doubleOf(x), d)

\* two numbers [neg, m, e], m not normalised, with their mantissas brought to
\* the lower exponent e: <<mantissa of a, mantissa of b, e>>
aligned(a, b) ==
    Only({<<shiftLeft(a.m, a.e - e), shiftLeft(b.m, b.e - e), e>> :
            e \in {Min(a.e, b.e)}})

\* the exact sum of two numbers [neg, m, e], m not normalised
exactSum(a, b) ==
    IF a.m = <<>> THEN b
    ELSE IF b.m = <<>> THEN a
    ELSE Only({IF a.neg = b.neg THEN [neg |-> a.neg, m |-> plus(n[1], n[2]), e |-> n[3]]
               ELSE IF n[4] = 0 THEN Zero
               ELSE IF n[4] = 1 THEN [neg |-> a.neg, m |-> minus(n[1], n[2]), e |-> n[3]]
               ELSE [neg |-> b.neg, m |-> minus(n[2], n[1]), e |-> n[3]] :
                 n \in {Only({t \o <<compare(t[1], t[2])>> : t \in {aligned(a, b)}})}})

\* a + k for a double a and an integer k
plusInt(a, k) ==
    Only({roundToDouble(sum.neg, sum.m, sum.e, FALSE) :
            sum \in {exactSum(a, doubleOf(k))}})

\* -1, 0 or 1: the sign of a number [neg, m, e]
signOf(a) == IF a.m = <<>> THEN 0 ELSE IF a.neg THEN -1 ELSE 1

\* -1, 0 or 1 as |a| < |b|, |a| = |b|, |a| > |b|, for a # 0 and b # 0
compareSizes(a, b) ==
    \* <<highest binary digit of a, of b>>
    Only({IF top[1] # top[2] THEN (IF top[1] > top[2] THEN 1 ELSE -1)
          ELSE Only({compare(n[1], n[2]) : n \in {aligned(a, b)}}) :
            top \in {<<bitLength(a.m) + a.e, bitLength(b.m) + b.e>>}})

\* a < b for doubles
lessThan(a, b) ==
    \E s \in {<<signOf(a), signOf(b)>>} :
        IF s[1] # s[2] THEN s[1] < s[2]
        ELSE IF s[1] = 0 THEN FALSE
        ELSE compareSizes(a, b) = -s[1]

------------------------------------------------------------------------------
(* Geometry kernel, MapView.tsx:39-119 and part_006:88-164 (the same code). *)
(* A geometry is [type, coordinates]; a missing geometry is NoGeometry.     *)
(* Vertices are <<lon, lat>> pairs of integers.  A point is [x, y, d],      *)
(* d > 0, standing for the pair of doubles (x / d, y / d): a mean of        *)
(* vertices is the sum of their coordinates, which is exact, divided by     *)
(* their number.  A Polygon without rings has coordinates <<>>, a member of *)
(* a MultiPolygon without rings is <<>>: `coordinates[0]` resp. `poly[0]`   *)
(* is then undefined.  A call returns [throws, value].                      *)

NoGeometry == [type |-> "<null>", coordinates |-> <<>>]

RECURSIVE SumCoord(_, _)
SumCoord(ring, k) ==
    IF ring = <<>> THEN 0 ELSE ring[1][k] + SumCoord(Tail(ring), k)

\* centroidForGeometry composed with computeCentroidLonLat (MapView.tsx:86-119),
\* resp. featureCentroid and `point: [centroid[1], centroid[0]]` (part_006:88-114,
\* 171-175): the centre as a <<lon, lat>> point, Nil when there is none; avg
\* iterates its argument, which throws a TypeError when the ring is undefined
computeCentroidLonLat(geometry) ==
    LET ok(v) == [throws |-> FALSE, value |-> v]
        TypeError == [throws |-> TRUE, value |-> Nil]
        avg(coords) ==
            IF Len(coords) # 0
            THEN \* [lat, lng] = [sum of la / count, sum of lon / count]
                 <<[lat |-> SumCoord(coords, 2), lng |-> SumCoord(coords, 1),
                    d |-> Len(coords)]>>
            ELSE Nil
        \* [center[1], center[0]]: back to lon, lat order
        lonLat(center) ==
            IF center = Nil THEN Nil
            ELSE <<[x |-> center[1].lng, y |-> center[1].lat, d |-> center[1].d]>>
        \* the member polygon that ends the loop: the first one without rings
        \* (avg throws) or with a non-empty first ring (avg returns a centre)
        decisive ==
            FirstIndex(geometry.coordinates,
                       {i \in DOMAIN geometry.coordinates :
                            IF Len(geometry.coordinates[i]) = 0 THEN TRUE
                            ELSE Len(geometry.coordinates[i][1]) # 0})
    IN CASE geometry.type = "Point" ->
                ok(lonLat(<<[lat |-> geometry.coordinates[2],
                             lng |-> geometry.coordinates[1], d |-> 1]>>))
         [] geometry.type = "Polygon" ->
                IF Len(geometry.coordinates) = 0 THEN TypeError
                ELSE ok(lonLat(avg(geometry.coordinates[1])))
         [] geometry.type = "MultiPolygon" ->
                IF decisive = 0 THEN ok(Nil)
                ELSE IF Len(geometry.coordinates[decisive]) = 0 THEN TypeError
                ELSE ok(lonLat(avg(geometry.coordinates[decisive][1])))
         [] OTHER -> ok(Nil)

\* one edge test of pointInRing (MapView.tsx:42-46): vertex i against vertex j,
\* each operation rounded as the code rounds it
edgeIntersects(p, vi, vj) ==
    LET xi == vi[1]  yi == vi[2]  xj == vj[1]  yj == vj[2]
    IN \E point \in {[k \in {1, 2} |-> quotientOf(IF k = 1 THEN p.x ELSE p.y, p.d)]} :
       \E above \in {[yv \in {yi, yj} |-> lessThan(point[2], doubleOf(yv))]} :
          \* yi > point[1] !== yj > point[1]
          /\ above[yi] # above[yj]
          \* point[0] < ((xj - xi) * (point[1] - yi)) / (yj - yi) + xi
          /\ lessThan(point[1], plusInt(overInt(timesInt(plusInt(point[2], -yi), xj - xi),
                                                yj - yi), xi))

\* pointInRing, MapView.tsx:39-50 / part_006:138-149: even-odd ray casting,
\* j runs one vertex behind i, starting at the last vertex
pointInRing(point, ring) ==
    LET n == Len(ring)
        crossings == {i \in 1..n :
                        LET j == IF i = 1 THEN n ELSE i - 1
                        IN edgeIntersects(point, ring[i], ring[j])}
    IN Cardinality(crossings) % 2 = 1

\* the first rings of the polygons `polys`, from index k on, tested in order
\* until one contains the point: pointInRing reads `ring.length`, a TypeError
\* when the ring is undefined
RECURSIVE ringsContain(_, _, _)
ringsContain(polys, point, k) ==
    IF k > Len(polys) THEN [throws |-> FALSE, value |-> FALSE]
    ELSE IF Len(polys[k]) = 0 THEN [throws |-> TRUE, value |-> FALSE]
    ELSE IF pointInRing(point, polys[k][1]) THEN [throws |-> FALSE, value |-> TRUE]
    ELSE ringsContain(polys, point, k + 1)

\* geometryContainsPoint, MapView.tsx:52-58 / part_006:151-160 /
\* LotDetailMap.tsx:168-185: a Polygon tests coordinates[0], a MultiPolygon
\* poly[0] of its members in the order of Array.prototype.some: [throws, value]
geometryContainsPoint(geometry, point) ==
    ringsContain(CASE geometry = NoGeometry -> <<>>
                   [] geometry.type = "Polygon" -> <<geometry.coordinates>>
                   [] geometry.type = "MultiPolygon" -> geometry.coordinates
                   [] OTHER -> <<>>,
                 point, 1)

\* twice the signed planar area of a ring (shoelace) in exact arithmetic
RECURSIVE shoelace(_, _)
shoelace(ring, i) ==
    IF i > Len(ring) THEN 0
    ELSE LET k == (i % Len(ring)) + 1
         IN ring[i][1] * ring[k][2] - ring[k][1] * ring[i][2] + shoelace(ring, i + 1)

\* the rings whose polygonArea (part_006:65-75) is decided by rounding: the
\* exact area is 0, and the sum of the rounded products of the projected
\* coordinates need not cancel.  It cancels when the ring has at most two
\* distinct vertices (the terms are t, -t and 0) and when every longitude or
\* every latitude is 0 (every product is 0).
areaIsRounding(ring) ==
    /\ Len(ring) >= 3
    /\ shoelace(ring, 1) = 0
    /\ Cardinality({ring[i] : i \in DOMAIN ring}) > 2
    /\ \E i \in DOMAIN ring : ring[i][1] # 0
    /\ \E i \in DOMAIN ring : ring[i][2] # 0

\* polygonArea(ring) > 0, part_006:65-75 and 127-128.  An undefined ring and a
\* ring of fewer than three vertices have area 0.  A ring that encloses a
\* region has a positive area.  The area of a ring of areaIsRounding depends
\* on the roundings of the products and of Math.cos, which the language
\* leaves to the implementation: `residue` tells whether it came out above 0.
polygonAreaIsPositive(ring, residue) ==
    /\ Len(ring) >= 3
    /\ IF areaIsRounding(ring) THEN residue[ring] ELSE shoelace(ring, 1) # 0

\* the first rings of a feature list whose area is decided by rounding
roundingRings(features) ==
    UNION {{features[i].geometry.coordinates[k][1] :
                k \in {m \in DOMAIN features[i].geometry.coordinates :
                         /\ Len(features[i].geometry.coordinates[m]) # 0
                         /\ areaIsRounding(features[i].geometry.coordinates[m][1])}} :
           i \in {j \in DOMAIN features : features[j].geometry.type = "MultiPolygon"}}

------------------------------------------------------------------------------
(* The space-to-lot join of the web map, MapView.tsx:236-353.              *)
(* A feature is [properties, geometry]; a lot feature's properties are     *)
(* [id, tags], a space feature's [id].                                     *)

\* spacesWithCenter, MapView.tsx:236-245: [throws, value]
RECURSIVE spacesWithCenter(_)
spacesWithCenter(features) ==
    IF features = <<>> THEN [throws |-> FALSE, value |-> <<>>]
    ELSE LET center == computeCentroidLonLat(features[1].geometry)
             rest == spacesWithCenter(Tail(features))
         IN IF center.throws \/ rest.throws THEN [throws |-> TRUE, value |-> <<>>]
            ELSE IF center.value = Nil THEN rest
            ELSE [throws |-> FALSE,
                  value |-> <<[feature |-> features[1], center |-> center.value[1]]>>
                               \o rest.value]

\* `way/${slot.id}`, MapView.tsx:250 / part_006:26
wayId(slotId) == "way/" \o slotId

\* occupiedSet, MapView.tsx:247-251; OCCUPIED_SPACE_IDS, part_006:22-26
occupiedSet(slots) == {wayId(slots[i].id) : i \in {k \in DOMAIN slots : slots[k].occupied}}

\* lotFeaturesForCounts, MapView.tsx:275-281
lotFeaturesForCounts(features, known) ==
    LET keep(f) == Truthy(f.properties.id) /\ f.properties.id \in known
    IN IF known = {} THEN <<>> ELSE SelectSeq(features, keep)

\* the inner loop, MapView.tsx:333-345: the lots, from index i on, one space is
\* counted toward; the loop breaks at the first lot that contains the centre,
\* and ends with the TypeError of a containment test that throws: [throws, hits]
RECURSIVE countedLots(_, _, _)
countedLots(lotFeatures, i, center) ==
    IF i > Len(lotFeatures) THEN [throws |-> FALSE, hits |-> {}]
    ELSE IF \/ ~Truthy(lotFeatures[i].properties.id)
            \/ lotFeatures[i].geometry = NoGeometry
         THEN countedLots(lotFeatures, i + 1, center)
    ELSE Only({IF inLot.throws THEN [throws |-> TRUE, hits |-> {}]
               ELSE IF inLot.value THEN [throws |-> FALSE, hits |-> {i}]
               ELSE countedLots(lotFeatures, i + 1, center) :
                 inLot \in {geometryContainsPoint(lotFeatures[i].geometry, center)}})

\* stats.total += 1; if occupied, stats.occupied += 1; statsByOsm.set(osmId, stats)
bumpStats(statsByOsm, osmId, isOccupied) ==
    LET old == IF osmId \in DOMAIN statsByOsm THEN statsByOsm[osmId]
               ELSE [total |-> 0, occupied |-> 0]
        new == [total |-> old.total + 1,
                occupied |-> old.occupied + (IF isOccupied THEN 1 ELSE 0)]
    IN [k \in DOMAIN statsByOsm \cup {osmId} |-> IF k = osmId THEN new ELSE statsByOsm[k]]

RECURSIVE bumpAll(_, _, _, _)
bumpAll(statsByOsm, lotFeatures, hits, isOccupied) ==
    IF hits = {} THEN statsByOsm
    ELSE LET k == CHOOSE h \in hits : \A g \in hits : h <= g
         IN bumpAll(bumpStats(statsByOsm, lotFeatures[k].properties.id, isOccupied),
                    lotFeatures, hits \ {k}, isOccupied)

\* the outer loop, MapView.tsx:330-346: [throws, value]
RECURSIVE joinSpaces(_, _, _, _)
joinSpaces(withCenter, lotFeatures, occupiedIds, statsByOsm) ==
    IF withCenter = <<>> THEN [throws |-> FALSE, value |-> statsByOsm]
    ELSE LET spaceId == withCenter[1].feature.properties.id
             isOccupied == Truthy(spaceId) /\ spaceId \in occupiedIds
         IN Only({IF counted.throws THEN [throws |-> TRUE, value |-> <<>>]
                  ELSE joinSpaces(Tail(withCenter), lotFeatures, occupiedIds,
                                  bumpAll(statsByOsm, lotFeatures, counted.hits,
                                          isOccupied)) :
                    counted \in {countedLots(lotFeatures, 1, withCenter[1].center)}})

\* the result map of MapView.tsx:348-352: osm id -> Counts
resultOf(statsByOsm) ==
    [osmId \in DOMAIN statsByOsm |->
        [total |-> statsByOsm[osmId].total,
         occupied |-> statsByOsm[osmId].occupied,
         open |-> Max(statsByOsm[osmId].total - statsByOsm[osmId].occupied, 0),
         unknown |-> 0]]

\* occupancyByLot, MapView.tsx:327-353, with the spacesWithCenter it reads:
\* [throws, value], the value a map osm id -> Counts
occupancyByLotOf(spaces, features, known, slots) ==
    LET withCenter == spacesWithCenter(spaces)
        lotFeatures == lotFeaturesForCounts(features, known)
    IN IF withCenter.throws THEN [throws |-> TRUE, value |-> <<>>]
       ELSE IF Len(withCenter.value) = 0 \/ Len(lotFeatures) = 0
            THEN [throws |-> FALSE, value |-> <<>>]
       ELSE Only({IF joined.throws THEN [throws |-> TRUE, value |-> <<>>]
                  ELSE [throws |-> FALSE, value |-> resultOf(joined.value)] :
                    joined \in {joinSpaces(withCenter.value, lotFeatures,
                                           occupiedSet(slots), <<>>)}})

------------------------------------------------------------------------------
(* The join of the seed script, generateLotsFromOSM, part_006:166-231 *)

PUBLIC_ACCESS == {"", "yes", "public", "permissive"}
ALLOWED_LOT_IDS == {"way/39115920", "way/38911611", "way/444966505", "way/275147287"}

\* toBoundaryLatLng(geometry).length > 0, part_006:116-136
hasBoundary(geometry, residue) ==
    CASE geometry.type = "Polygon" -> Len(geometry.coordinates[1]) # 0
      [] geometry.type = "MultiPolygon" ->
            \* the ring of the largest positive area; [] when no ring has one
            \E k \in DOMAIN geometry.coordinates :
                /\ Len(geometry.coordinates[k]) # 0
                /\ polygonAreaIsPositive(geometry.coordinates[k][1], residue)
      [] OTHER -> FALSE

\* String.prototype.toLowerCase, on the strings the model draws
toLowerCase(str) ==
    CASE str = "Yes" -> "yes"
      [] str = "PUBLIC" -> "public"
      [] str = "Permissive" -> "permissive"
      [] str = "Private" -> "private"
      [] OTHER -> str

\* (tags.access || "").toLowerCase(), part_006:186
accessOf(tags) == toLowerCase(IF Truthy(tags.access) THEN tags.access ELSE "")

\* part_006:194-195; slugify of part_006:52-57 is the pipeline of the
\* server's slugify applied to a string
seedLotId(featureId, tags) ==
    LET slugBase == IF Truthy(tags.name) THEN slugify(tags.name) ELSE ""
    IN IF slugBase # "" /\ Len(slugBase) > 2 THEN slugBase
       ELSE "lot-" \o ReplaceNonWord(featureId)

\* part_006:28-39
LOT_NAME_OVERRIDES ==
    ("way/39115920" :> "Stadium Southeast Parking")
      @@ ("way/38911611" :> "Stadium Northeast Parking")
      @@ ("way/444966505" :> "Saint John's Arena Parking")
      @@ ("way/275147287" :> "Stadium East Parking")
LOT_PERMIT_OVERRIDES ==
    ("way/39115920" :> <<"A", "B", "C">>)
      @@ ("way/38911611" :> <<"A", "B", "C">>)
      @@ ("way/444966505" :> <<"B", "C">>)
      @@ ("way/275147287" :> <<"A", "B">>)

\* LOT_NAME_OVERRIDES[featureId] || tags.name || "Parking Lot", part_006:212
seedLotName(featureId, tags) ==
    IF featureId \in DOMAIN LOT_NAME_OVERRIDES THEN LOT_NAME_OVERRIDES[featureId]
    ELSE IF Truthy(tags.name) THEN tags.name ELSE "Parking Lot"

\* LOT_PERMIT_OVERRIDES[featureId] || ["A", "B", "C"], part_006:216
seedLotPermits(featureId) ==
    IF featureId \in DOMAIN LOT_PERMIT_OVERRIDES THEN LOT_PERMIT_OVERRIDES[featureId]
    ELSE <<"A", "B", "C">>

\* the filter of part_006:197 over the spaces from index k on: [throws, value],
\* the value the indices of the spaces the lot contains
RECURSIVE lotSpacesFrom(_, _, _)
lotSpacesFrom(geometry, withCenter, k) ==
    IF k > Len(withCenter) THEN [throws |-> FALSE, value |-> {}]
    ELSE Only({IF inLot.throws THEN [throws |-> TRUE, value |-> {}]
               ELSE Only({IF rest.throws THEN rest
                          ELSE [throws |-> FALSE,
                                value |-> (IF inLot.value THEN {k} ELSE {})
                                             \cup rest.value] :
                            rest \in {lotSpacesFrom(geometry, withCenter, k + 1)}}) :
                 inLot \in {geometryContainsPoint(geometry, withCenter[k].center)}})

\* the lotsConfig entry of part_006:211-225
lotsConfigEntry(feature, withCenter, occupiedIds, lotSpaces) ==
    [id |-> seedLotId(feature.properties.id, feature.properties.tags),
     name |-> seedLotName(feature.properties.id, feature.properties.tags),
     permit_types |-> seedLotPermits(feature.properties.id),
     spaceCount |-> Cardinality(lotSpaces),
     occupiedCount |->
        Cardinality({k \in lotSpaces :
                        withCenter[k].feature.properties.id \in occupiedIds}),
     tags |-> feature.properties.tags,
     osmId |-> feature.properties.id]

\* one iteration of the loop over lot features, part_006:182-226: [throws,
\* value], the value Nil when the feature is skipped, else <<lotsConfig entry>>
seedLotOf(feature, withCenter, occupiedIds, residue) ==
    LET centroid == computeCentroidLonLat(feature.geometry)
        skip == [throws |-> FALSE, value |-> Nil]
        TypeError == [throws |-> TRUE, value |-> Nil]
    IN IF feature.properties.id \notin ALLOWED_LOT_IDS THEN skip
       ELSE IF accessOf(feature.properties.tags) \notin PUBLIC_ACCESS THEN skip
       ELSE IF centroid.throws THEN TypeError
       ELSE IF centroid.value = Nil \/ ~hasBoundary(feature.geometry, residue) THEN skip
       ELSE Only({IF lotSpaces.throws THEN TypeError
                  ELSE [throws |-> FALSE,
                        value |-> <<lotsConfigEntry(feature, withCenter, occupiedIds,
                                                    lotSpaces.value)>>] :
                    lotSpaces \in {lotSpacesFrom(feature.geometry, withCenter, 1)}})

\* the loop of part_006:182-226 over the lot features: it ends at the first
\* iteration that throws
RECURSIVE seedLotsFrom(_, _, _, _)
seedLotsFrom(features, withCenter, occupiedIds, residue) ==
    IF features = <<>> THEN [throws |-> FALSE, value |-> <<>>]
    ELSE Only({IF first.throws THEN [throws |-> TRUE, value |-> <<>>]
               ELSE Only({IF rest.throws THEN rest
                          ELSE [throws |-> FALSE, value |-> first.value \o rest.value] :
                            rest \in {seedLotsFrom(Tail(features), withCenter,
                                                   occupiedIds, residue)}}) :
                 first \in {seedLotOf(features[1], withCenter, occupiedIds, residue)}})

\* generateLotsFromOSM: [throws, value], the value the lotsConfig it returns
\* (<<>> where it returns null)
generateLotsFromOSM(features, spaces, slots, residue) ==
    LET withCenter == spacesWithCenter(spaces)
    IN IF Len(features) = 0 THEN [throws |-> FALSE, value |-> <<>>]
       ELSE IF withCenter.throws THEN [throws |-> TRUE, value |-> <<>>]
       ELSE seedLotsFrom(features, withCenter.value, occupiedSet(slots), residue)

\* part_006:233-295: what the script seeds, the generated lots or, when
\* generateLotsFromOSM returned null, the one fallback lot
FallbackLot ==
    [id |-> "stadium-lot-east", name |-> "Stadium Lot East",
     permit_types |-> <<"A", "B">>, spaceCount |-> 0, occupiedCount |-> 0,
     tags |-> <<>>, osmId |-> Null]
seedLotsConfig(generated) == IF generated = <<>> THEN <<FallbackLot>> ELSE generated

\* stallsByLot[id] = [], part_006:201, and line 274 for the fallback
seedStalls(lotsConfig) ==
    [id \in {lotsConfig[i].id : i \in DOMAIN lotsConfig} |-> <<>>]

\* capacity[id] = [{...}], part_006:202-209: a later lot of the same id
\* overwrites an earlier one; lines 275-284 for the fallback
seedCapacity(generated, t) ==
    IF generated = <<>>
    THEN ("stadium-lot-east" :>
            <<[capacity |-> 180, occupied |-> 65, source |-> "seed", observed_at |-> t]>>)
    ELSE [id \in {generated[i].id : i \in DOMAIN generated} |->
            LET last == CHOOSE i \in DOMAIN generated :
                            /\ generated[i].id = id
                            /\ \A j \in DOMAIN generated : generated[j].id = id => j <= i
            IN <<[capacity |-> generated[last].spaceCount,
                  occupied |-> generated[last].occupiedCount,
                  source |-> "seed", observed_at |-> t]>>]

\* images, part_006:180 and 286-293
seedImages(generated, t) ==
    IF generated = <<>>
    THEN ("stadium-lot-east.png" :>
            [lotId |-> "stadium-lot-east", url |-> "/images/stadium-lot-east.png",
             captured_at |-> t, source |-> "seed"])
    ELSE <<>>

\* lotsConfig.map(...), part_006:297-316: the lots written to lots.json
seedLotsJson(lotsConfig) ==
    [i \in DOMAIN lotsConfig |->
        [id |-> lotsConfig[i].id, name |-> lotsConfig[i].name,
         permit_types |-> lotsConfig[i].permit_types,
         metadata |-> [source |-> "custom",
                       spaceCount |-> lotsConfig[i].spaceCount,
                       occupiedCount |-> lotsConfig[i].occupiedCount,
                       tags |-> lotsConfig[i].tags,
                       osmId |-> lotsConfig[i].osmId]]]

------------------------------------------------------------------------------
(* Bounds and input domains *)

MaxStalls == 2      \* manual stalls stored for a lot
MaxSpots == 1       \* parking_spot rows of the external source per lot

StallStatuses == {"open", "occupied", "unknown"}
StallLists == SeqsUpTo([status : StallStatuses], MaxStalls)

OptCounts == {Nil, <<0>>, <<3>>}
OptOccupied == {Nil, <<1>>, <<5>>}
CapLogs == {<<>>, <<[capacity |-> 4, occupied |-> 1, source |-> "mock"]>>}

\* stored lots: one protected, one with an unprotected OSM id, one without OSM id
StoredLots ==
    {[id |-> "lot-a", name |-> "Lot A", permit_types |-> <<"A", "C">>,
      metadata |-> [osmId |-> o, spaceCount |-> sc, occupiedCount |-> oc,
                    pricing |-> Undefined, tags |-> NoTags]] :
        o \in {Undefined, "way/38911611", "way/1"}, sc \in OptCounts, oc \in OptOccupied}

\* rows of the external parking_lot table
ExternalRows ==
    [lot_name : {"Lot A", "Lot X"},
     location : {Null, "way/38911611", "way/1"},
     capacity : {Nil, <<5>>},
     occupancy : {<<2>>, <<7>>, <<-1>>},
     pricing : {Null}]

SpotLists(name) == SeqsUpTo([lot_name : {name}, is_filled : BOOLEAN], MaxSpots)

\* the answers of the four queries about one lot row and its spot rows
RawOfRow(row, sp) ==
    [lotRows |-> <<row>>, spotRows |-> sp,
     accessRows |-> <<[lot_name |-> row.lot_name, permit_id |-> 1]>>,
     permitRows |-> <<[permit_id |-> 1, code |-> "C", name |-> Null]>>]

EmptyCache == [fetchedAt |-> 0, list |-> <<>>]

------------------------------------------------------------------------------
(* Idle values of the variable groups a specification does not use *)

ServerIdle ==
    /\ supabase = FALSE
    /\ supabaseLotsCache = EmptyCache
    /\ now = 0
    /\ pc = <<>>
    /\ startedAt = <<>>
    /\ reply = <<>>
    /\ response = <<>>

ResolveIdle ==
    /\ supaData = Nil
    /\ summary = Nil
    /\ stallCounts = Nil
    /\ onlyLot = Nil

HistoryIdle == snapshots = <<>>

KernelIdle == argGeometry = <<>> /\ argPoint = <<>> /\ contains = <<>>

FilesIdle ==
    /\ lotsFile = <<>> /\ stallsFile = <<>> /\ capacityFile = <<>>
    /\ snapshotsFile = <<>> /\ imagesFile = <<>>

ViewIdle ==
    /\ lotSummaries = <<>>
    /\ occupancyFetchedAt = Null
    /\ lotSnapshots = <<>>
    /\ effectPending = FALSE
    /\ detailCounts = <<>>

JoinIdle ==
    /\ spacesRaw = <<>>
    /\ lotsGeo = <<>>
    /\ knownOsmIds = {}
    /\ occupancy = <<>>
    /\ occupancyByLot = Nil
    /\ seedLots = Nil

------------------------------------------------------------------------------
(* Specification of the resolver: the stored data of one lot is drawn in   *)
(* Init, each action applies one of the server's counting functions.       *)

ResolveInit ==
    /\ \E l \in StoredLots, st \in StallLists, cl \in CapLogs :
          /\ lots = <<l>>
          /\ stallsByLot = (l.id :> st)
          /\ capacity = (l.id :> cl)
    /\ supabase = TRUE
    /\ supabaseLotsCache = EmptyCache
    /\ now = 0
    /\ pc = <<>> /\ startedAt = <<>> /\ reply = <<>> /\ response = <<>>
    /\ ResolveIdle
    /\ HistoryIdle
    /\ KernelIdle
    /\ FilesIdle
    /\ ViewIdle
    /\ JoinIdle

Fresh == summary = Nil /\ stallCounts = Nil /\ onlyLot = Nil

\* summarizeLot(l, null): the external source is not configured
ResolveLocal ==
    /\ Fresh
    /\ supaData' = Nil
    /\ summary' = <<summarizeLot(lots[1], Nil, stallsByLot, capacity)>>
    /\ UNCHANGED << stallCounts, onlyLot >>
    /\ UNCHANGED serverVars /\ UNCHANGED joinVars /\ UNCHANGED historyVars
    /\ UNCHANGED kernelVars
    /\ UNCHANGED fileVars /\ UNCHANGED viewVars

\* summarizeLot(l, snapshot) with a snapshot of one external row
ResolveWithSnapshot ==
    /\ Fresh
    /\ \E row \in ExternalRows : \E sp \in SpotLists(row.lot_name) :
          LET data == <<[fetchedAt |-> 1, list |-> snapshotList(RawOfRow(row, sp))]>>
          IN /\ supaData' = data
             /\ summary' = <<summarizeLot(lots[1], data, stallsByLot, capacity)>>
    /\ UNCHANGED << stallCounts, onlyLot >>
    /\ UNCHANGED serverVars /\ UNCHANGED joinVars /\ UNCHANGED historyVars
    /\ UNCHANGED kernelVars
    /\ UNCHANGED fileVars /\ UNCHANGED viewVars

\* summarizeStalls(stallsByLot[lotId] || []), as GET /api/lots/:id/stalls does
ResolveStalls ==
    /\ Fresh
    /\ stallCounts' = <<summarizeStalls(GetOr(stallsByLot, lots[1].id))>>
    /\ UNCHANGED << supaData, summary, onlyLot >>
    /\ UNCHANGED serverVars /\ UNCHANGED joinVars /\ UNCHANGED historyVars
    /\ UNCHANGED kernelVars
    /\ UNCHANGED fileVars /\ UNCHANGED viewVars

\* createSupabaseOnlyLot(entry) for an entry of a snapshot
ResolveOnlyLot ==
    /\ Fresh
    /\ \E row \in ExternalRows : \E sp \in SpotLists(row.lot_name) :
          LET data == <<[fetchedAt |-> 1, list |-> snapshotList(RawOfRow(row, sp))]>>
          IN /\ supaData' = data
             /\ onlyLot' = <<createSupabaseOnlyLot(data[1].list[1])>>
    /\ UNCHANGED << summary, stallCounts >>
    /\ UNCHANGED serverVars /\ UNCHANGED joinVars /\ UNCHANGED historyVars
    /\ UNCHANGED kernelVars
    /\ UNCHANGED fileVars /\ UNCHANGED viewVars

ResolveNext == ResolveLocal \/ ResolveWithSnapshot \/ ResolveStalls \/ ResolveOnlyLot

ResolveSpec == ResolveInit /\ [][ResolveNext]_vars

------------------------------------------------------------------------------
(* Claims about the resolver, checked under ResolveSpec *)

CountsOK(c) ==
    /\ c.total = c.occupied + c.open + c.unknown
    /\ c.total >= 0 /\ c.occupied >= 0 /\ c.open >= 0 /\ c.unknown >= 0

\* the single entry of the snapshot argument, and whether the lot matches it
\* (by OSM id = row location, else by name)
TheEntry == supaData[1].list[1]
LotMatchesEntry ==
    /\ supaData # Nil
    /\ \/ /\ Truthy(TheEntry.row.location)
          /\ TheEntry.row.location = lots[1].metadata.osmId
       \/ /\ Truthy(TheEntry.row.lot_name)
          /\ TheEntry.row.lot_name = lots[1].name
LotIsProtected == lots[1].metadata.osmId \in PROTECTED_OSM_IDS

\* C1: every Counts record the server produces (summarizeLot in both branches,
\* createSupabaseOnlyLot, summarizeStalls) has total = occupied + open + unknown
\* and all four fields >= 0, for any stored metadata, manual stalls and external
\* row values.
C1_CountsInvariant ==
    /\ summary # Nil => CountsOK(summary[1].counts)
    /\ stallCounts # Nil => CountsOK(stallCounts[1])
    /\ onlyLot # Nil => CountsOK(onlyLot[1].counts)

\* the external capacity and occupied count of the entry, read off the raw rows
ExternalCapacity ==
    IF TheEntry.spots # <<>> THEN Len(TheEntry.spots)
    ELSE NumberOrZero(TheEntry.row.capacity)
ExternalOccupied ==
    IF TheEntry.spots # <<>>
    THEN Cardinality({i \in DOMAIN TheEntry.spots : TheEntry.spots[i].is_filled})
    ELSE NumberOrZero(TheEntry.row.occupancy)

\* C2: for a lot that matches an external entry and is not protected,
\* summarizeLot returns total = external capacity, occupied = external occupied
\* count clamped to [0, capacity], open = max(capacity - occupied, 0),
\* unknown = 0 and a capacity snapshot tagged with the external source.
C2_ExternalCounts ==
    (summary # Nil /\ LotMatchesEntry /\ ~LotIsProtected) =>
        LET c == summary[1].counts
            clamped == Max(0, Min(ExternalOccupied, ExternalCapacity))
        IN /\ c.total = ExternalCapacity
           /\ c.occupied = clamped
           /\ c.open = Max(ExternalCapacity - clamped, 0)
           /\ c.unknown = 0
           /\ summary[1].latestCap = [capacity |-> ExternalCapacity,
                                      occupied |-> clamped, source |-> "supabase"]

\* the snapshots that differ from the resolved one only in the entry's capacity,
\* occupancy or spot rows
SnapshotVariants ==
    {<<[fetchedAt |-> 1,
        list |-> snapshotList(RawOfRow([TheEntry.row EXCEPT !.capacity = cp,
                                                             !.occupancy = oc], sp))]>> :
        cp \in {Nil, <<5>>, <<9>>}, oc \in {Nil, <<2>>, <<7>>},
        sp \in SpotLists(TheEntry.row.lot_name)}

\* C3: for a protected lot the counts and the capacity snapshot summarizeLot
\* returns do not depend on the external source: a resolution that differs only
\* in the external entry's capacity, occupancy or spot rows returns the same
\* counts and capacity values.
C3_ProtectedIgnoresExternal ==
    (summary # Nil /\ supaData # Nil /\ LotIsProtected) =>
        \A alt \in SnapshotVariants :
            LET other == summarizeLot(lots[1], alt, stallsByLot, capacity)
            IN /\ other.counts = summary[1].counts
               /\ other.latestCap = summary[1].latestCap

\* a protected lot was resolved against an entry that matches it and whose
\* external capacity differs from the total returned
C3_Witness ==
    /\ summary # Nil /\ LotMatchesEntry /\ LotIsProtected
    /\ summary[1].metadata.supabase # Nil
    /\ ExternalCapacity # summary[1].counts.total
    /\ summary[1].counts.total > 0

\* the lot was resolved in the local fallback: no snapshot, no matching entry,
\* or a protected lot
LocalFallback == supaData = Nil \/ ~LotMatchesEntry \/ LotIsProtected

\* the counts of the seeded space aggregate (spaceCount / occupiedCount)
SeededAggregate(md) ==
    LET sc == NumberOrZero(md.spaceCount)
        oc == NumberOrZero(md.occupiedCount)
        open == Max(sc - oc, 0)
    IN [total |-> sc, occupied |-> oc, open |-> open,
        unknown |-> Max(sc - open - oc, 0)]

\* C11: in the local fallback a lot with a non-zero seeded spaceCount reports
\* the seeded counts, whether or not manual stalls are stored for it; manual
\* stalls determine the counts only when the seeded total is zero.
C11_SeededBeforeManual ==
    (summary # Nil /\ LocalFallback
        /\ NumberOrZero(lots[1].metadata.spaceCount) # 0) =>
        summary[1].counts = SeededAggregate(lots[1].metadata)

------------------------------------------------------------------------------
(* Specification of the permit and pricing merge of summarizeLot: the      *)
(* stored lot varies in its pricing and permit types, the external answer  *)
(* in the row's pricing and in the permit_access rows.                     *)

MaxAccess == 2      \* permit_access rows of the external source

\* the permit_type table: a coded permit, a permit with a name only, and a
\* permit with neither (its access rows add nothing, server.js:114)
MergePermitRows ==
    << [permit_id |-> 1, code |-> "C", name |-> Null],
       [permit_id |-> 2, code |-> Null, name |-> "Visitor"],
       [permit_id |-> 3, code |-> Null, name |-> Null] >>

MergeAccessRows ==
    SeqsUpTo([lot_name : {"Lot A", "Lot X"}, permit_id : {1, 2, 3}], MaxAccess)

MergeRows ==
    [lot_name : {"Lot A", "Lot X"},
     location : {Null, "way/38911611", "way/1"},
     capacity : {<<5>>},
     occupancy : {<<2>>},
     pricing : {Null, "$2 per hour"}]

\* stored lots: with and without pricing, with no permits, two permits, and a
\* list that names a permit twice (POST /api/lots stores any list)
MergeLots ==
    {[id |-> "lot-a", name |-> "Lot A", permit_types |-> pt,
      metadata |-> [osmId |-> o, spaceCount |-> <<3>>, occupiedCount |-> Nil,
                    pricing |-> pr, tags |-> tg]] :
        pt \in {<<>>, <<"A", "C">>, <<"C", "C">>},
        o \in {Undefined, "way/38911611", "way/1"},
        pr \in {Undefined, "$1 per hour"},
        tg \in {NoTags, [pricing |-> Undefined, fee |-> "yes"]}}

MergeInit ==
    /\ \E l \in MergeLots :
          /\ lots = <<l>>
          /\ stallsByLot = (l.id :> <<>>)
          /\ capacity = (l.id :> <<>>)
    /\ supabase = TRUE
    /\ supabaseLotsCache = EmptyCache
    /\ now = 0
    /\ pc = <<>> /\ startedAt = <<>> /\ reply = <<>> /\ response = <<>>
    /\ ResolveIdle
    /\ HistoryIdle
    /\ KernelIdle
    /\ FilesIdle
    /\ ViewIdle
    /\ JoinIdle

\* summarizeLot(l, snapshot) with a snapshot built from one lot row
MergeWithSnapshot ==
    /\ Fresh
    /\ \E row \in MergeRows, ar \in MergeAccessRows :
          LET raw == [lotRows |-> <<row>>, spotRows |-> <<>>,
                      accessRows |-> ar, permitRows |-> MergePermitRows]
              data == <<[fetchedAt |-> 1, list |-> snapshotList(raw)]>>
          IN /\ supaData' = data
             /\ summary' = <<summarizeLot(lots[1], data, stallsByLot, capacity)>>
    /\ UNCHANGED << stallCounts, onlyLot >>
    /\ UNCHANGED serverVars /\ UNCHANGED joinVars /\ UNCHANGED historyVars
    /\ UNCHANGED kernelVars
    /\ UNCHANGED fileVars /\ UNCHANGED viewVars

MergeNext == ResolveLocal \/ MergeWithSnapshot

MergeSpec == MergeInit /\ [][MergeNext]_vars

------------------------------------------------------------------------------
(* Claims about the merge, checked under MergeSpec *)

\* the pricing the stored lot carries, and the pricing of the matched row
StoredPricing == lots[1].metadata.pricing
ExternalPricing == IF LotMatchesEntry THEN TheEntry.row.pricing ELSE Null

\* C12: summarizeLot never loses pricing that only one source supplies: with
\* no stored pricing and a matched row that has pricing, the returned pricing
\* is the row's, for protected and unprotected lots alike; with stored pricing
\* only, the stored pricing is returned.
C12_PricingNotLost ==
    summary # Nil =>
        /\ (IsNullish(StoredPricing) /\ ~IsNullish(ExternalPricing)) =>
                summary[1].pricing = ExternalPricing
        /\ (~IsNullish(StoredPricing) /\ IsNullish(ExternalPricing)) =>
                summary[1].pricing = StoredPricing

SetOf(s) == {s[i] : i \in DOMAIN s}
NoDuplicates(s) == Cardinality(SetOf(s)) = Len(s)

\* the permits of both sources are in the result, and nothing else is
PermitsAreUnion ==
    SetOf(summary[1].permit_types)
        = SetOf(lots[1].permit_types) \cup SetOf(TheEntry.permits)

\* C13 (as stated): for every lot that matches an external entry, protected or
\* not, the returned permit_types is the set union of the stored permit types
\* and the entry's permits, every permit of either source present exactly once.
C13_PermitUnionOnce ==
    (summary # Nil /\ LotMatchesEntry) =>
        /\ PermitsAreUnion
        /\ NoDuplicates(summary[1].permit_types)

\* C13 (amended): for every lot that matches an external entry, protected or
\* not, the returned permit_types holds exactly the permits of either source;
\* each is present once when the entry lists at least one permit or the stored
\* list names no permit twice, and otherwise the stored list comes back as it
\* is stored.
C13_PermitUnion ==
    (summary # Nil /\ LotMatchesEntry) =>
        /\ PermitsAreUnion
        /\ (TheEntry.permits # <<>> \/ NoDuplicates(lots[1].permit_types)) =>
                NoDuplicates(summary[1].permit_types)
        /\ TheEntry.permits = <<>> => summary[1].permit_types = lots[1].permit_types

\* a protected lot with stored permits A and C matched an entry that lists C
\* and Visitor: the result holds the three permits once each
C13_Witness ==
    /\ summary # Nil /\ LotMatchesEntry /\ LotIsProtected
    /\ lots[1].permit_types = <<"A", "C">>
    /\ SetOf(TheEntry.permits) = {"C", "Visitor"}
    /\ Len(summary[1].permit_types) = 3

------------------------------------------------------------------------------
(* Specification of the spatial joins: the features and the occupancy feed *)
(* are drawn in Init, each action runs one of the two joins.               *)

MaxLots == 2        \* lot features
MaxSpaces == 2      \* space features

Square(x, y, w) == <<<<x, y>>, <<x + w, y>>, <<x + w, y + w>>, <<x, y + w>>>>

\* two overlapping squares, a triangle with a slanted edge, a two-part
\* multipolygon that overlaps them, a multipolygon whose one ring is three
\* points of a line, a Polygon without rings, and a feature without geometry
LotGeometries ==
    {[type |-> "Polygon", coordinates |-> <<Square(0, 0, 4)>>],
     [type |-> "Polygon", coordinates |-> <<Square(2, 2, 4)>>],
     [type |-> "Polygon", coordinates |-> <<<<<<0, 0>>, <<6, 0>>, <<0, 6>>>>>>],
     [type |-> "MultiPolygon",
      coordinates |-> <<<<Square(8, 8, 2)>>, <<Square(1, 1, 2)>>>>],
     [type |-> "MultiPolygon",
      coordinates |-> <<<<<<<<1, 1>>, <<2, 2>>, <<4, 4>>>>>>>>],
     [type |-> "Polygon", coordinates |-> <<>>],
     NoGeometry}

LotIds == <<"way/38911611", "way/444966505", "way/39115920", "way/275147287">>

\* tags of a lot feature: none, an access value in capitals with a name whose
\* slug has two characters, a private lot, and a named public lot
NoLotTags == [access |-> Undefined, name |-> Undefined]
LotKinds ==
    {[geometry |-> g, tags |-> NoLotTags] : g \in LotGeometries}
      \cup {[geometry |-> [type |-> "Polygon", coordinates |-> <<Square(0, 0, 4)>>],
             tags |-> [access |-> "Yes", name |-> "ab"]],
            [geometry |-> [type |-> "Polygon", coordinates |-> <<Square(2, 2, 4)>>],
             tags |-> [access |-> "private", name |-> "Lot A"]],
            [geometry |-> [type |-> "Polygon", coordinates |-> <<Square(2, 2, 4)>>],
             tags |-> [access |-> "PUBLIC", name |-> "Lot A"]]}

LotFeatureSeqs ==
    UNION {{[i \in 1..n |-> [properties |-> [id |-> LotIds[i], tags |-> k[i].tags],
                             geometry |-> k[i].geometry]] :
               k \in [1..n -> LotKinds]} : n \in 1..MaxLots}

\* spaces: points inside one square, inside several lots, inside none; a
\* polygon whose centre (7/3, 7/3) lies in both squares; a Polygon without
\* rings
SpaceGeometries ==
    {[type |-> "Point", coordinates |-> <<1, 3>>],
     [type |-> "Point", coordinates |-> <<3, 3>>],
     [type |-> "Point", coordinates |-> <<7, 1>>],
     [type |-> "Polygon", coordinates |-> <<<<<<2, 2>>, <<3, 2>>, <<2, 3>>>>>>]}

\* the occupancy feed names way/101; node/101 is a space it never names
SpaceFeatures ==
    {[properties |-> [id |-> "way/101"], geometry |-> g] : g \in SpaceGeometries}
      \cup {[properties |-> [id |-> "node/101"],
             geometry |-> [type |-> "Point", coordinates |-> <<3, 3>>]],
            [properties |-> [id |-> "way/101"],
             geometry |-> [type |-> "Polygon", coordinates |-> <<>>]]}

SpaceFeatureSeqs == SeqsUpTo(SpaceFeatures, MaxSpaces)

Feeds == {<<[id |-> "101", occupied |-> b], [id |-> "102", occupied |-> TRUE]>> :
            b \in BOOLEAN}

\* a history left in snapshots.json by an earlier deployment
OldHistory ==
    ("lot-a" :> <<[weekday |-> 0, slot |-> "09:50", open |-> 1, occupied |-> 0,
                   detected_at |-> 0]>>)

JoinInit ==
    /\ spacesRaw \in SpaceFeatureSeqs
    /\ lotsGeo \in LotFeatureSeqs
    /\ knownOsmIds \in {{LotIds[i] : i \in 1..Len(LotIds)}, {LotIds[2]}}
    /\ occupancy \in Feeds
    /\ occupancyByLot = Nil
    /\ seedLots = Nil
    /\ lots = <<>> /\ stallsByLot = <<>> /\ capacity = <<>>
    /\ ServerIdle
    /\ ResolveIdle
    /\ HistoryIdle
    /\ KernelIdle
    /\ lotsFile = Nil /\ stallsFile = Nil /\ capacityFile = Nil /\ imagesFile = Nil
    /\ snapshotsFile \in {Nil, <<OldHistory>>}
    /\ ViewIdle

\* the web map computes occupancyByLot
MapViewJoin ==
    /\ occupancyByLot = Nil /\ seedLots = Nil
    /\ occupancyByLot' = <<occupancyByLotOf(spacesRaw, lotsGeo, knownOsmIds, occupancy)>>
    /\ UNCHANGED << spacesRaw, lotsGeo, knownOsmIds, occupancy, seedLots >>
    /\ UNCHANGED serverVars /\ UNCHANGED resolveVars /\ UNCHANGED historyVars
    /\ UNCHANGED kernelVars
    /\ UNCHANGED fileVars /\ UNCHANGED viewVars

\* the seed script, part_006:166-328: one synchronous run that generates
\* lotsConfig and writes the five files of the data directory
SeedJoin ==
    /\ occupancyByLot = Nil /\ seedLots = Nil
    /\ \E residue \in [roundingRings(lotsGeo) -> BOOLEAN] :
       \E call \in {generateLotsFromOSM(lotsGeo, spacesRaw, occupancy, residue)} :
          /\ seedLots' = <<call>>
          /\ IF call.throws
             THEN \* the script ends at line 233, before the first writeJSON
                  UNCHANGED fileVars
             ELSE /\ lotsFile' = <<seedLotsJson(seedLotsConfig(call.value))>>
                  /\ stallsFile' = <<seedStalls(seedLotsConfig(call.value))>>
                  /\ capacityFile' = <<seedCapacity(call.value, now)>>
                  /\ snapshotsFile' = << <<>> >>
                  /\ imagesFile' = <<seedImages(call.value, now)>>
    /\ UNCHANGED << spacesRaw, lotsGeo, knownOsmIds, occupancy, occupancyByLot >>
    /\ UNCHANGED serverVars /\ UNCHANGED resolveVars /\ UNCHANGED historyVars
    /\ UNCHANGED kernelVars
    /\ UNCHANGED viewVars

JoinNext == MapViewJoin \/ SeedJoin

JoinSpec == JoinInit /\ [][JoinNext]_vars

------------------------------------------------------------------------------
(* Claims about the joins, checked under JoinSpec *)

RECURSIVE SumOver(_, _)
SumOver(f, S) ==
    IF S = {} THEN 0
    ELSE LET k == CHOOSE x \in S : TRUE IN f[k] + SumOver(f, S \ {k})

\* the space features that have a centre
SpacesWithCentre ==
    {k \in DOMAIN spacesRaw :
        LET center == computeCentroidLonLat(spacesRaw[k].geometry)
        IN ~center.throws /\ center.value # Nil}
CentreOf(k) == computeCentroidLonLat(spacesRaw[k].geometry).value[1]

\* C5: in every spatial join that derives per-lot space counts (MapView's
\* occupancyByLot and the seed script's generateLotsFromOSM) each space counts
\* toward at most one lot, so the per-lot totals sum to at most the number of
\* spaces, also when lot polygons overlap.
C5_TotalsBoundedBySpaces ==
    /\ (occupancyByLot # Nil /\ ~occupancyByLot[1].throws) =>
          LET m == occupancyByLot[1].value
          IN SumOver([id \in DOMAIN m |-> m[id].total], DOMAIN m) <= Len(spacesRaw)
    /\ (seedLots # Nil /\ ~seedLots[1].throws) =>
          LET c == seedLots[1].value
          IN SumOver([i \in DOMAIN c |-> c[i].spaceCount], DOMAIN c) <= Len(spacesRaw)

\* the lots the map counts for: known to the summaries, in file order
CountedLotIdx == {i \in DOMAIN lotsGeo : lotsGeo[i].properties.id \in knownOsmIds}

\* the centre of space k lies in lot i, by the code's containment test
InLot(i, k) ==
    LET inLot == geometryContainsPoint(lotsGeo[i].geometry, CentreOf(k))
    IN ~inLot.throws /\ inLot.value

\* the spaces whose centre lies in lot i and in no earlier counted lot
SpacesOfLot(i) ==
    {k \in SpacesWithCentre :
        /\ InLot(i, k)
        /\ \A j \in CountedLotIdx : j < i => ~InLot(j, k)}

OccupiedIds == {"way/" \o occupancy[i].id : i \in {k \in DOMAIN occupancy : occupancy[k].occupied}}

\* C6: occupancyByLot yields, for each lot, total = number of spaces whose
\* centroid lies in that lot and in no earlier lot, occupied = number of those
\* whose id is in the occupied set, open = total - occupied, unknown = 0; a
\* space in no lot contributes nowhere and a lot containing no space has no
\* entry.
C6_JoinCounts ==
    occupancyByLot # Nil =>
        /\ ~occupancyByLot[1].throws
        /\ LET m == occupancyByLot[1].value
           IN /\ DOMAIN m = {lotsGeo[i].properties.id :
                               i \in {j \in CountedLotIdx : SpacesOfLot(j) # {}}}
              /\ \A i \in CountedLotIdx :
                   SpacesOfLot(i) # {} =>
                       LET c == m[lotsGeo[i].properties.id]
                           occ == Cardinality({k \in SpacesOfLot(i) :
                                    spacesRaw[k].properties.id \in OccupiedIds})
                       IN c = [total |-> Cardinality(SpacesOfLot(i)), occupied |-> occ,
                               open |-> Cardinality(SpacesOfLot(i)) - occ, unknown |-> 0]

------------------------------------------------------------------------------
(* fetchSupabaseData and GET /api/lots, server.js:78-162 and 174-217.      *)

\* the cache test of lines 81-83
cacheHit(cache, t) == Len(cache.list) # 0 /\ t - cache.fetchedAt < SUPABASE_CACHE_MS

\* faulty variants of the catch block: it empties the cache, or it rethrows
fetchFailedReset(cache) ==
    [throws |-> FALSE, data |-> <<EmptyCache>>, cache |-> EmptyCache]
fetchFailedThrows(cache) ==
    [throws |-> TRUE, data |-> Nil, cache |-> cache]

\* the catch block, lines 158-161: log, and return the cache as it is now
fetchFailed(cache) ==
    [throws |-> FALSE, data |-> <<cache>>, cache |-> cache]

\* the success path, lines 98-157: build the snapshot, store and return it
fetchSucceeded(raw, t) ==
    LET fresh == [fetchedAt |-> t, list |-> snapshotList(raw)]
    IN [throws |-> FALSE, data |-> <<fresh>>, cache |-> fresh]

\* result.find(...), lines 183-187: is the entry already in the result
hasExisting(result, entry) ==
    \E i \in DOMAIN result :
        LET lot == result[i]
            supaLocation == IF lot.metadata.supabase = Nil THEN Undefined
                            ELSE lot.metadata.supabase[1].location
        IN \/ supaLocation = entry.row.location
           \/ lot.metadata.osmId = entry.row.location
           \/ lot.name = entry.row.lot_name

\* lines 181-192: append a lot for every entry that no lot of the result matches
RECURSIVE appendExternalOnly(_, _)
appendExternalOnly(result, entries) ==
    IF entries = <<>> THEN result
    ELSE appendExternalOnly(
            IF hasExisting(result, entries[1]) THEN result
            ELSE Append(result, createSupabaseOnlyLot(entries[1])),
            Tail(entries))

\* the body of GET /api/lots without query parameters, lines 177-212
listLots(data, storedLots, stallsMap, capacityMap) ==
    LET result == [i \in DOMAIN storedLots |->
                      summarizeLot(storedLots[i], data, stallsMap, capacityMap)]
    IN IF data = Nil THEN result ELSE appendExternalOnly(result, data[1].list)

\* what the handler sends once fetchSupabaseData has settled, lines 174-217;
\* `how` records the way the snapshot was obtained, `stalls` the stalls stored
\* when the listing was built
respond(outcome, how, storedLots, stallsMap, capacityMap) ==
    IF outcome.throws
    THEN [status |-> 500, body |-> <<>>, how |-> how, served |-> Nil,
          stalls |-> stallsMap]
    ELSE [status |-> 200,
          body |-> listLots(outcome.data, storedLots, stallsMap, capacityMap),
          how |-> how, served |-> outcome.data, stalls |-> stallsMap]

------------------------------------------------------------------------------
(* The stall write, POST /api/lots/:id/stalls, server.js:278-284.  A       *)
(* request body is [isArray, items].                                       *)

\* Array.isArray(req.body) ? req.body : [], line 280
bodyItems(body) == IF body.isArray THEN body.items ELSE <<>>

\* POST /api/lots/:id/stalls, lines 278-284: the new stallsByLot
postStalls(stallsMap, lotId, body) ==
    [k \in DOMAIN stallsMap \cup {lotId} |->
        IF k = lotId THEN bodyItems(body) ELSE stallsMap[k]]

\* line 283: res.json({ ok: true, count: items.length })
postStallsResponse(lotId, body) ==
    [op |-> "POST stalls", lotId |-> lotId, posted |-> body, status |-> 200,
     json |-> [ok |-> TRUE, count |-> Len(bodyItems(body))]]

------------------------------------------------------------------------------
(* Specification of the server: concurrent GET /api/lots requests, the     *)
(* external source answering or not, and the clock.                        *)

MaxReq == 2         \* requests
MaxTicks == 3       \* clock ticks

Reqs == 1..MaxReq
TickMs == SUPABASE_CACHE_MS \div 2
StartTime == 2 * SUPABASE_CACHE_MS

Pending == <<"pending">>
Failure == <<"error">>

ServerLots ==
    <<[id |-> "lot-a", name |-> "Lot A", permit_types |-> <<"A", "C">>,
       metadata |-> [osmId |-> "way/1", spaceCount |-> <<3>>, occupiedCount |-> <<1>>,
                     pricing |-> Undefined, tags |-> NoTags]],
      [id |-> "lot-p", name |-> "Lot P", permit_types |-> <<"B">>,
       metadata |-> [osmId |-> "way/38911611", spaceCount |-> Nil,
                     occupiedCount |-> Nil, pricing |-> Undefined, tags |-> NoTags]]>>

\* what the four queries can answer: no lot at all, a row for the stored lot
\* way/1, a row for a lot the server does not store
ServerAnswers ==
    {[lotRows |-> <<>>, spotRows |-> <<>>, accessRows |-> <<>>, permitRows |-> <<>>],
     RawOfRow([lot_name |-> "Lot A", location |-> "way/1", capacity |-> <<5>>,
               occupancy |-> <<2>>, pricing |-> Null], <<>>),
     RawOfRow([lot_name |-> "Lot X", location |-> Null, capacity |-> <<9>>,
               occupancy |-> <<9>>, pricing |-> Null],
              <<[lot_name |-> "Lot X", is_filled |-> TRUE]>>)}

ServerInit ==
    /\ lots = ServerLots
    /\ stallsByLot = ("lot-a" :> <<>>) @@ ("lot-p" :> <<[status |-> "occupied"]>>)
    /\ capacity = <<>>
    /\ supabase \in BOOLEAN
    /\ supabaseLotsCache = EmptyCache
    /\ now = StartTime
    /\ pc = [r \in Reqs |-> "idle"]
    /\ startedAt = [r \in Reqs |-> 0]
    /\ reply = [r \in Reqs |-> Nil]
    /\ response = [r \in Reqs |-> Nil]
    /\ ResolveIdle
    /\ HistoryIdle
    /\ KernelIdle
    /\ lotsFile = <<lots>> /\ stallsFile = <<stallsByLot>>
    /\ capacityFile = Nil /\ snapshotsFile = Nil /\ imagesFile = Nil
    /\ ViewIdle
    /\ JoinIdle

\* what a call of fetchSupabaseData returned: at once (line 79 "unconfigured",
\* line 82 "hit") or when its queries had settled (line 157 "ok", line 160
\* "error").  The handler's continuation behind `await fetchSupabaseData()` is
\* then a queued promise job; `turn` is its place in the queue.
Returns(data) == [throws |-> FALSE, data |-> data]
Returned(outcome, how, turn) == <<"returned", outcome.data, how, turn, outcome.throws>>

\* the requests whose handler is queued to resume
Queued == {r \in DOMAIN reply : reply[r] # Nil /\ reply[r][1] = "returned"}
\* those whose fetchSupabaseData returned from a promise job of its own, after
\* the queries settled: their handlers resume before the event loop takes the
\* next request
AfterFetch == {r \in Queued : reply[r][3] \in {"ok", "error"}}
NextTurn ==
    IF Queued = {} THEN 1
    ELSE 1 + (CHOOSE n \in {reply[q][4] : q \in Queued} :
                 \A q \in Queued : reply[q][4] <= n)
\* promise jobs run in the order they were queued
ResumesNext(r) == r \in Queued /\ \A q \in Queued : reply[r][4] <= reply[q][4]

\* requests are numbered in the order their handlers are called; a handler is
\* called from the event loop, when no promise job of a settled fetch is left
NextRequest(r) ==
    /\ pc[r] = "idle" /\ \A q \in 1..(r - 1) : pc[q] # "idle"
    /\ AfterFetch = {}

\* a GET /api/lots arrives and runs up to `await fetchSupabaseData()` (line
\* 176): fetchSupabaseData returns null or the cache (lines 79-83), or has
\* sent the four queries (lines 86-91); in each case the handler yields
ListLotsArrives(r) ==
    /\ NextRequest(r)
    /\ IF ~supabase
       THEN \* line 79: return null
            /\ pc' = [pc EXCEPT ![r] = "yielded"]
            /\ reply' = [reply EXCEPT ![r] =
                            Returned(Returns(Nil), "unconfigured", NextTurn)]
            /\ UNCHANGED startedAt
       ELSE IF cacheHit(supabaseLotsCache, now)
       THEN \* line 82: return supabaseLotsCache
            /\ pc' = [pc EXCEPT ![r] = "yielded"]
            /\ reply' = [reply EXCEPT ![r] =
                            Returned(Returns(<<supabaseLotsCache>>), "hit", NextTurn)]
            /\ UNCHANGED startedAt
       ELSE \* lines 86-91: the four queries are sent
            /\ pc' = [pc EXCEPT ![r] = "awaiting"]
            /\ startedAt' = [startedAt EXCEPT ![r] = now]
            /\ reply' = [reply EXCEPT ![r] = Pending]
    /\ UNCHANGED << lots, stallsByLot, capacity, supabase, supabaseLotsCache, now,
                    response >>
    /\ UNCHANGED resolveVars /\ UNCHANGED joinVars /\ UNCHANGED historyVars
    /\ UNCHANGED kernelVars
    /\ UNCHANGED fileVars /\ UNCHANGED viewVars

\* the handler resumes with what fetchSupabaseData returned to it and builds
\* the listing from the lots and stalls stored now (lines 177-216); the cache
\* may hold another request's snapshot by now
ListLotsResumes(r) ==
    /\ ResumesNext(r)
    /\ response' = [response EXCEPT ![r] =
          <<respond([throws |-> reply[r][5], data |-> reply[r][2]],
                    reply[r][3], lots, stallsByLot, capacity)>>]
    /\ pc' = [pc EXCEPT ![r] = "done"]
    /\ reply' = [reply EXCEPT ![r] = Nil]
    /\ UNCHANGED << lots, stallsByLot, capacity, supabase, supabaseLotsCache, now,
                    startedAt >>
    /\ UNCHANGED resolveVars /\ UNCHANGED joinVars /\ UNCHANGED historyVars
    /\ UNCHANGED kernelVars
    /\ UNCHANGED fileVars /\ UNCHANGED viewVars

\* POST /api/lots/lot-p/stalls with an empty list (lines 278-284), handled
\* while listings are in flight
ListedStallsWritten(r) ==
    /\ NextRequest(r)
    /\ LET body == [isArray |-> TRUE, items |-> <<>>]
       IN /\ stallsByLot' = postStalls(stallsByLot, "lot-p", body)
          /\ stallsFile' = <<stallsByLot'>>
          /\ response' = [response EXCEPT ![r] =
                <<[status |-> 200, body |-> <<>>, how |-> "write", served |-> Nil,
                   stalls |-> stallsByLot',
                   json |-> postStallsResponse("lot-p", body).json]>>]
    /\ pc' = [pc EXCEPT ![r] = "done"]
    /\ UNCHANGED << lots, capacity, supabase, supabaseLotsCache, now, startedAt, reply >>
    /\ UNCHANGED << lotsFile, capacityFile, snapshotsFile, imagesFile >>
    /\ UNCHANGED resolveVars /\ UNCHANGED joinVars /\ UNCHANGED historyVars
    /\ UNCHANGED kernelVars /\ UNCHANGED viewVars

\* the external source answers the queries of request r
SourceAnswers(r) ==
    /\ pc[r] = "awaiting" /\ reply[r] = Pending
    /\ \E raw \in ServerAnswers : reply' = [reply EXCEPT ![r] = <<"ok", raw>>]
    /\ UNCHANGED << lots, stallsByLot, capacity, supabase, supabaseLotsCache, now,
                    pc, startedAt, response >>
    /\ UNCHANGED resolveVars /\ UNCHANGED joinVars /\ UNCHANGED historyVars
    /\ UNCHANGED kernelVars
    /\ UNCHANGED fileVars /\ UNCHANGED viewVars

\* a query errors or the call rejects (source unreachable)
SourceFails(r) ==
    /\ pc[r] = "awaiting" /\ reply[r] = Pending
    /\ reply' = [reply EXCEPT ![r] = Failure]
    /\ UNCHANGED << lots, stallsByLot, capacity, supabase, supabaseLotsCache, now,
                    pc, startedAt, response >>
    /\ UNCHANGED resolveVars /\ UNCHANGED joinVars /\ UNCHANGED historyVars
    /\ UNCHANGED kernelVars
    /\ UNCHANGED fileVars /\ UNCHANGED viewVars

\* the await of lines 86-91 settles and fetchSupabaseData runs to its end
\* (lines 93-161): it stores the snapshot, or catches the error, and returns;
\* the handler that awaits it is queued behind the promise jobs queued before.
\* The queries settle in a callback of the event loop, after the handlers
\* that yielded in the previous one have resumed.
FetchSettles(r) ==
    /\ pc[r] = "awaiting" /\ reply[r] # Pending
    /\ Queued = AfterFetch
    /\ LET outcome == IF reply[r] = Failure THEN fetchFailed(supabaseLotsCache)
                      ELSE fetchSucceeded(reply[r][2], startedAt[r])
           how == IF reply[r] = Failure THEN "error" ELSE "ok"
       IN /\ supabaseLotsCache' = outcome.cache
          /\ reply' = [reply EXCEPT ![r] = Returned(outcome, how, NextTurn)]
    /\ pc' = [pc EXCEPT ![r] = "yielded"]
    /\ UNCHANGED << lots, stallsByLot, capacity, supabase, now, startedAt, response >>
    /\ UNCHANGED resolveVars /\ UNCHANGED joinVars /\ UNCHANGED historyVars
    /\ UNCHANGED kernelVars
    /\ UNCHANGED fileVars /\ UNCHANGED viewVars

\* time passes
Tick ==
    /\ now < StartTime + MaxTicks * TickMs
    /\ now' = now + TickMs
    /\ UNCHANGED << lots, stallsByLot, capacity, supabase, supabaseLotsCache,
                    pc, startedAt, reply, response >>
    /\ UNCHANGED resolveVars /\ UNCHANGED joinVars /\ UNCHANGED historyVars
    /\ UNCHANGED kernelVars
    /\ UNCHANGED fileVars /\ UNCHANGED viewVars

ServerNext ==
    \/ \E r \in Reqs : ListLotsArrives(r)
    \/ \E r \in Reqs : ListLotsResumes(r)
    \/ \E r \in Reqs : ListedStallsWritten(r)
    \/ \E r \in Reqs : SourceAnswers(r)
    \/ \E r \in Reqs : SourceFails(r)
    \/ \E r \in Reqs : FetchSettles(r)
    \/ Tick

ServerSpec == ServerInit /\ [][ServerNext]_vars

\* the continuation of some request whose promise has settled runs
SomeFetchSettles == \E r \in Reqs : ListLotsResumes(r) \/ FetchSettles(r)

\* The event loop runs a continuation whose promise has settled; nothing
\* obliges the external source to answer, clients to send requests or the
\* model's bounded clock to advance.
FairServerSpec == ServerSpec /\ WF_vars(SomeFetchSettles)

------------------------------------------------------------------------------
(* Claims about the cache and the listing, checked under ServerSpec *)

\* the requests answered after the external source failed or was unconfigured
Degraded == {r \in Reqs : response[r] # Nil /\ response[r][1].how \in {"unconfigured", "error"}}

\* the counts the local data alone gives lot i when the listing of request r
\* is built
SeededCounts(r, i) ==
    computeSeedCounts(lots[i], GetOr(response[r][1].stalls, lots[i].id),
                      GetOr(capacity, lots[i].id)).counts

\* C4 as stated: when the external source is unconfigured, unreachable or
\* answers with an error, the listing still returns a Counts record for every
\* stored lot, falling back to the local seeded counts, and the failure is not
\* surfaced as an error response.
C4_FallbackToSeeded ==
    \A r \in Degraded :
        /\ response[r][1].status = 200
        /\ Len(response[r][1].body) >= Len(lots)
        /\ \A i \in DOMAIN lots :
              /\ response[r][1].body[i].id = lots[i].id
              /\ response[r][1].body[i].counts = SeededCounts(r, i)

\* does the snapshot served to request r hold an entry for stored lot i
StaleEntryFor(r, i) ==
    /\ response[r][1].served # Nil
    /\ \E k \in DOMAIN response[r][1].served[1].list :
          LET row == response[r][1].served[1].list[k].row
          IN \/ Truthy(row.location) /\ row.location = lots[i].metadata.osmId
             \/ Truthy(row.lot_name) /\ row.lot_name = lots[i].name

\* the external counts of an entry: the number of its spots, or the row's
\* capacity when it has none, and the filled ones, at most that many
EntryCounts(e) ==
    LET total == e.stats.total
        occupied == IF e.stats.occupied < total THEN e.stats.occupied ELSE total
    IN [total |-> total, occupied |-> occupied, open |-> total - occupied,
        unknown |-> 0]

\* the entry of the snapshot served to request r that stored lot i resolves
\* to: the one with the lot's OSM id as location, else the one with its name
StaleEntry(r, i) == lookupEntry(lots[i], response[r][1].served)[1]

\* C4 amended: in that situation the listing answers 200 with a Counts record
\* for every stored lot: the local seeded counts, except for an unprotected lot
\* that matches an entry of the cached snapshot the failed fetch returned,
\* which gets the external counts of that entry.
C4_FallbackToSeededOrStale ==
    \A r \in Degraded :
        /\ response[r][1].status = 200
        /\ Len(response[r][1].body) >= Len(lots)
        /\ \A i \in DOMAIN lots :
              LET s == response[r][1].body[i]
              IN /\ s.id = lots[i].id
                 /\ IF StaleEntryFor(r, i) /\ lots[i].metadata.osmId \notin PROTECTED_OSM_IDS
                    THEN /\ s.counts = EntryCounts(StaleEntry(r, i))
                         /\ s.latestCap.source = "supabase"
                    ELSE s.counts = SeededCounts(r, i)

\* a fetch failed after a snapshot holding an entry for the first stored lot
\* had been cached: the lot got the stale external counts, the protected lot
\* its seeded counts
C4_Witness ==
    \E r \in Degraded :
        /\ response[r][1].how = "error"
        /\ StaleEntryFor(r, 1)
        /\ response[r][1].body[1].latestCap.source = "supabase"
        /\ response[r][1].body[1].counts = EntryCounts(StaleEntry(r, 1))
        /\ response[r][1].body[1].counts # SeededCounts(r, 1)
        /\ response[r][1].body[2].counts = SeededCounts(r, 2)

\* C7: at most one outbound refresh of the external source is in flight at any
\* time.
C7_SingleFlight == Cardinality({r \in Reqs : pc[r] = "awaiting"}) <= 1

\* C8: after a successful fetch, every fetchSupabaseData call within the
\* 60-second window returns the cached snapshot without an outbound request,
\* whatever the snapshot contains (a cache with fetchedAt > 0 was stored by a
\* successful fetch).
C8_NoRefetchInWindow ==
    [][\A r \in Reqs :
          (/\ supabaseLotsCache.fetchedAt > 0
           /\ now - supabaseLotsCache.fetchedAt < SUPABASE_CACHE_MS
           /\ pc[r] = "idle")
          => pc'[r] # "awaiting"]_vars

\* the refetch of request r fails in this step
FailedRefetch(r) ==
    pc[r] = "awaiting" /\ reply[r] = Failure /\ pc'[r] = "yielded"

\* C9: when the cached snapshot has expired and the refetch fails,
\* fetchSupabaseData returns the cached snapshot, leaves the cache unchanged
\* (same list and fetchedAt) and does not throw; the listing that awaited it
\* answers 200 from the snapshot returned to it.
C9_FailedRefetchServesCache ==
    [][\A r \in Reqs :
          /\ FailedRefetch(r) =>
                /\ supabaseLotsCache' = supabaseLotsCache
                /\ reply'[r][2] = <<supabaseLotsCache>>
                /\ reply'[r][5] = FALSE
          /\ (r \in AfterFetch /\ reply[r][3] = "error" /\ pc'[r] = "done") =>
                /\ response'[r][1].status = 200
                /\ response'[r][1].served = reply[r][2]
                /\ supabaseLotsCache' = supabaseLotsCache]_vars

\* a refetch started after the snapshot had expired failed, and the request
\* was served that snapshot
C9_Witness ==
    \E r \in Reqs :
        /\ response[r] # Nil
        /\ response[r][1].how = "error"
        /\ response[r][1].served # Nil
        /\ Len(response[r][1].served[1].list) > 0
        /\ startedAt[r] - response[r][1].served[1].fetchedAt >= SUPABASE_CACHE_MS

\* C10: every lot-listing request eventually receives a response, even if the
\* external source never answers.
C10_EveryListingAnswered ==
    \A r \in Reqs : (pc[r] \in {"yielded", "awaiting"}) ~> (pc[r] = "done")

------------------------------------------------------------------------------
(* The stall routes and the lot-detail route, server.js:219-284.           *)
(* A request body is [isArray, items]; a stall is [id, status, polygon],   *)
(* its polygon Nil when missing, else <<sequence of points>>.              *)

\* lots.find((l) => l.id === id), lines 221, 241: index of the first, or 0
findLot(storedLots, id) ==
    FirstIndex(storedLots, {i \in DOMAIN storedLots : storedLots[i].id = id})

\* supaSnapshot.list.find((row) => row.id === id), lines 228, 252
findEntry(data, id) ==
    IF data = Nil THEN 0
    ELSE FirstIndex(data[1].list,
                    {i \in DOMAIN data[1].list : data[1].list[i].id = id})

\* lines 254-257: the stalls of an external entry (the spot rows carry no
\* spot_id, line 88, so the id is the index)
spotStalls(spots) ==
    [i \in DOMAIN spots |->
        [id |-> "spot-" \o ToString(i - 1),
         status |-> IF spots[i].is_filled THEN "occupied" ELSE "open"]]

\* GET /api/lots/:id/stalls, lines 237-268, once fetchSupabaseData returned data
getStalls(lotId, data, storedLots, stallsMap) ==
    IF findLot(storedLots, lotId) # 0
    THEN LET stalls == GetOr(stallsMap, lotId)
         IN [op |-> "GET stalls", lotId |-> lotId, status |-> 200,
             source |-> "manual", counts |-> <<summarizeStalls(stalls)>>,
             stalls |-> stalls]
    ELSE IF findEntry(data, lotId) # 0
    THEN LET stalls == spotStalls(data[1].list[findEntry(data, lotId)].spots)
         IN [op |-> "GET stalls", lotId |-> lotId, status |-> 200,
             source |-> "supabase", counts |-> <<summarizeStalls(stalls)>>,
             stalls |-> stalls]
    ELSE [op |-> "GET stalls", lotId |-> lotId, status |-> 404,
          source |-> Null, counts |-> Nil, stalls |-> <<>>]

\* GET /api/lots/:id, lines 219-235, once fetchSupabaseData returned data
getLot(id, data, storedLots, stallsMap, capacityMap) ==
    IF findLot(storedLots, id) # 0
    THEN [op |-> "GET lot", lotId |-> id, status |-> 200,
          summary |-> <<summarizeLot(storedLots[findLot(storedLots, id)], data,
                                     stallsMap, capacityMap)>>]
    ELSE IF findEntry(data, id) # 0
    THEN [op |-> "GET lot", lotId |-> id, status |-> 200,
          summary |-> <<createSupabaseOnlyLot(data[1].list[findEntry(data, id)])>>]
    ELSE [op |-> "GET lot", lotId |-> id, status |-> 404, summary |-> Nil]

\* the metadata of a lot posted without one: `b.metadata || {}`, line 273
EmptyMetadata ==
    [osmId |-> Undefined, spaceCount |-> Nil, occupiedCount |-> Nil,
     pricing |-> Undefined, tags |-> NoTags]

\* POST /api/lots, line 273: the lot built from the body b and the id that
\* nanoid(10) returned; a body is [name, permit_types, metadata], the last
\* two Nil when absent
postLot(id, b) ==
    [id |-> id, name |-> b.name,
     permit_types |-> IF b.permit_types = Nil THEN <<"C", "Visitor">>
                      ELSE b.permit_types[1],
     metadata |-> IF b.metadata = Nil THEN EmptyMetadata ELSE b.metadata[1]]

\* line 275: res.json(lot)
postLotResponse(lot) ==
    [op |-> "POST lot", lotId |-> lot.id, status |-> 200, json |-> lot]

------------------------------------------------------------------------------
(* Specification of the routes: requests of the four routes arrive one     *)
(* after the other; a read that misses the cache waits for the external    *)
(* source while later requests are handled.  `response` is the response    *)
(* sent last.                                                              *)

MaxRequests == 3    \* requests handled
MaxInFlight == 2    \* reads waiting for the external source at once

RouteReqs == 1..MaxRequests

Triangle == <<<<<<0, 0>>, <<4, 0>>, <<0, 4>>>>>>
TwoPoints == <<<<<<0, 0>>, <<4, 0>>>>>>

StallOpen == [id |-> "S-001", status |-> "open", polygon |-> Triangle]
StallTaken == [id |-> "S-002", status |-> "occupied", polygon |-> Triangle]
StallNoPolygon == [id |-> "S-003", status |-> "unknown", polygon |-> Nil]
StallTwoPoints == [id |-> "S-004", status |-> "open", polygon |-> TwoPoints]

\* request bodies: an object, and lists of well-formed and malformed stalls
PostedBodies ==
    {[isArray |-> FALSE, items |-> <<>>]}
      \cup {[isArray |-> TRUE, items |-> s] :
                s \in {<<>>, <<StallOpen>>, <<StallTaken, StallOpen>>,
                       <<StallNoPolygon>>, <<StallOpen, StallTwoPoints>>}}

\* ids nanoid(10) can return
NanoIds == {"V1StGXR8_Z", "b-9sT2kLmQ"}

\* ids of the two stored lots, of the entries the external source can list,
\* and an id that is of no lot until POST /api/lots draws it
WriteIds == {"lot-a", "lot-p", "supabase-lot-x"}
RouteIds == WriteIds \cup {"lot-way-1", "V1StGXR8_Z"}

PostedLots ==
    {[name |-> "Lot A", permit_types |-> Nil,
      metadata |-> <<[EmptyMetadata EXCEPT !.osmId = "way/1"]>>],
     [name |-> Undefined, permit_types |-> <<<<"A">>>>, metadata |-> Nil]}

NoRequest == [at |-> "idle", op |-> "", id |-> ""]
Handled(op, id) == [at |-> "done", op |-> op, id |-> id]
Awaiting(op, id) == [at |-> "awaiting", op |-> op, id |-> id]
HasYielded(op, id) == [at |-> "yielded", op |-> op, id |-> id]

\* requests are numbered in the order they arrive; a handler is called from
\* the event loop, when no promise job of a settled fetch is left
Arrives(r) ==
    /\ pc[r].at = "idle" /\ \A q \in 1..(r - 1) : pc[q].at # "idle"
    /\ AfterFetch = {}

RoutesInit ==
    /\ lots = ServerLots
    /\ stallsByLot \in {("lot-p" :> <<StallTaken>>),
                        ("lot-p" :> <<StallTaken>>) @@ ("lot-a" :> <<StallTaken>>)}
    /\ capacity = <<>>
    /\ supabase \in BOOLEAN
    /\ supabaseLotsCache = EmptyCache
    /\ now = StartTime
    /\ pc = [r \in RouteReqs |-> NoRequest]
    /\ startedAt = [r \in RouteReqs |-> 0]
    /\ reply = [r \in RouteReqs |-> Nil]
    /\ response = Nil
    /\ lotsFile = <<lots>> /\ stallsFile = <<stallsByLot>>
    /\ capacityFile = Nil /\ snapshotsFile = Nil /\ imagesFile = Nil
    /\ ResolveIdle
    /\ HistoryIdle
    /\ KernelIdle
    /\ ViewIdle
    /\ JoinIdle

\* POST /api/lots/:id/stalls, lines 278-284
PostStalls(r) ==
    /\ Arrives(r)
    /\ \E lotId \in WriteIds, body \in PostedBodies :
          /\ stallsByLot' = postStalls(stallsByLot, lotId, body)
          /\ stallsFile' = <<stallsByLot'>>
          /\ response' = <<postStallsResponse(lotId, body)>>
          /\ pc' = [pc EXCEPT ![r] = Handled("POST stalls", lotId)]
    /\ UNCHANGED << lots, capacity, supabase, supabaseLotsCache, now, startedAt, reply >>
    /\ UNCHANGED << lotsFile, capacityFile, snapshotsFile, imagesFile >>
    /\ UNCHANGED resolveVars /\ UNCHANGED joinVars /\ UNCHANGED historyVars
    /\ UNCHANGED kernelVars /\ UNCHANGED viewVars

\* POST /api/lots, lines 270-276
PostLot(r) ==
    /\ Arrives(r)
    /\ \E id \in NanoIds, b \in PostedLots :
          /\ lots' = Append(lots, postLot(id, b))
          /\ lotsFile' = <<lots'>>
          /\ response' = <<postLotResponse(postLot(id, b))>>
          /\ pc' = [pc EXCEPT ![r] = Handled("POST lot", id)]
    /\ UNCHANGED << stallsByLot, capacity, supabase, supabaseLotsCache, now,
                    startedAt, reply >>
    /\ UNCHANGED << stallsFile, capacityFile, snapshotsFile, imagesFile >>
    /\ UNCHANGED resolveVars /\ UNCHANGED joinVars /\ UNCHANGED historyVars
    /\ UNCHANGED kernelVars /\ UNCHANGED viewVars

\* what a read sends once fetchSupabaseData returned data
readResponse(op, id, data) ==
    IF op = "GET stalls" THEN getStalls(id, data, lots, stallsByLot)
    ELSE getLot(id, data, lots, stallsByLot, capacity)

\* a read arrives and runs to `await fetchSupabaseData()` (lines 220 / 239):
\* fetchSupabaseData returns null or the cache (lines 79-83), or has sent the
\* four queries (lines 86-91); in each case the handler yields
ReadArrives(r, op, id) ==
    /\ Arrives(r)
    /\ IF ~supabase \/ cacheHit(supabaseLotsCache, now)
       THEN /\ pc' = [pc EXCEPT ![r] = HasYielded(op, id)]
            /\ reply' = [reply EXCEPT ![r] =
                  Returned(Returns(IF ~supabase THEN Nil ELSE <<supabaseLotsCache>>),
                           IF ~supabase THEN "unconfigured" ELSE "hit", NextTurn)]
            /\ UNCHANGED startedAt
       ELSE /\ Cardinality({q \in RouteReqs : pc[q].at = "awaiting"}) < MaxInFlight
            /\ pc' = [pc EXCEPT ![r] = Awaiting(op, id)]
            /\ startedAt' = [startedAt EXCEPT ![r] = now]
            /\ reply' = [reply EXCEPT ![r] = Pending]
    /\ UNCHANGED << lots, stallsByLot, capacity, supabase, supabaseLotsCache, now,
                    response >>
    /\ UNCHANGED resolveVars /\ UNCHANGED joinVars /\ UNCHANGED historyVars
    /\ UNCHANGED kernelVars /\ UNCHANGED fileVars /\ UNCHANGED viewVars

\* the queries of read r have settled and fetchSupabaseData runs to its end
\* (lines 93-161): it stores the snapshot, or catches the error, and returns;
\* the handler is queued behind the promise jobs queued before
ReadFetchSettles(r) ==
    /\ pc[r].at = "awaiting" /\ reply[r] # Pending
    /\ Queued = AfterFetch
    /\ LET outcome == IF reply[r] = Failure THEN fetchFailed(supabaseLotsCache)
                      ELSE fetchSucceeded(reply[r][2], startedAt[r])
           how == IF reply[r] = Failure THEN "error" ELSE "ok"
       IN /\ supabaseLotsCache' = outcome.cache
          /\ reply' = [reply EXCEPT ![r] = Returned(outcome, how, NextTurn)]
    /\ pc' = [pc EXCEPT ![r] = HasYielded(pc[r].op, pc[r].id)]
    /\ UNCHANGED << lots, stallsByLot, capacity, supabase, now, startedAt, response >>
    /\ UNCHANGED resolveVars /\ UNCHANGED joinVars /\ UNCHANGED historyVars
    /\ UNCHANGED kernelVars /\ UNCHANGED fileVars /\ UNCHANGED viewVars

\* the handler resumes, in its turn, with what fetchSupabaseData returned to
\* it, and answers from the lots and stalls stored at that moment; the cache
\* may hold another request's snapshot by now
ReadResumes(r, op) ==
    /\ pc[r].op = op
    /\ ResumesNext(r)
    /\ response' = <<readResponse(op, pc[r].id, reply[r][2])>>
    /\ pc' = [pc EXCEPT ![r] = Handled(op, pc[r].id)]
    /\ reply' = [reply EXCEPT ![r] = Nil]
    /\ UNCHANGED << lots, stallsByLot, capacity, supabase, supabaseLotsCache, now,
                    startedAt >>
    /\ UNCHANGED resolveVars /\ UNCHANGED joinVars /\ UNCHANGED historyVars
    /\ UNCHANGED kernelVars /\ UNCHANGED fileVars /\ UNCHANGED viewVars

\* GET /api/lots/:id/stalls, lines 237-268, up to the await and after it
GetStalls(r) ==
    /\ Arrives(r)
    /\ \E lotId \in RouteIds : ReadArrives(r, "GET stalls", lotId)
GetStallsResumes(r) ==
    /\ pc[r].op = "GET stalls"
    /\ ReadResumes(r, "GET stalls")

\* GET /api/lots/:id, lines 219-235, up to the await and after it
GetLot(r) ==
    /\ Arrives(r)
    /\ \E id \in RouteIds : ReadArrives(r, "GET lot", id)
GetLotResumes(r) ==
    /\ pc[r].op = "GET lot"
    /\ ReadResumes(r, "GET lot")

\* the external source answers the queries of request r, or fails
RouteSourceAnswers(r) ==
    /\ pc[r].at = "awaiting" /\ reply[r] = Pending
    /\ \E raw \in ServerAnswers : reply' = [reply EXCEPT ![r] = <<"ok", raw>>]
    /\ UNCHANGED << lots, stallsByLot, capacity, supabase, supabaseLotsCache, now,
                    pc, startedAt, response >>
    /\ UNCHANGED resolveVars /\ UNCHANGED joinVars /\ UNCHANGED historyVars
    /\ UNCHANGED kernelVars /\ UNCHANGED fileVars /\ UNCHANGED viewVars

RouteSourceFails(r) ==
    /\ pc[r].at = "awaiting" /\ reply[r] = Pending
    /\ reply' = [reply EXCEPT ![r] = Failure]
    /\ UNCHANGED << lots, stallsByLot, capacity, supabase, supabaseLotsCache, now,
                    pc, startedAt, response >>
    /\ UNCHANGED resolveVars /\ UNCHANGED joinVars /\ UNCHANGED historyVars
    /\ UNCHANGED kernelVars /\ UNCHANGED fileVars /\ UNCHANGED viewVars

RoutesNext ==
    \/ \E r \in RouteReqs : PostStalls(r)
    \/ \E r \in RouteReqs : PostLot(r)
    \/ \E r \in RouteReqs : GetStalls(r)
    \/ \E r \in RouteReqs : GetStallsResumes(r)
    \/ \E r \in RouteReqs : GetLot(r)
    \/ \E r \in RouteReqs : GetLotResumes(r)
    \/ \E r \in RouteReqs : ReadFetchSettles(r)
    \/ \E r \in RouteReqs : RouteSourceAnswers(r)
    \/ \E r \in RouteReqs : RouteSourceFails(r)

RoutesSpec == RoutesInit /\ [][RoutesNext]_vars

------------------------------------------------------------------------------
(* Claims about the routes, checked under RoutesSpec *)

\* a list of stalls, each with a polygon of at least 3 points
ValidBody(body) ==
    /\ body.isArray
    /\ \A i \in DOMAIN body.items :
          /\ body.items[i].polygon # Nil
          /\ Len(body.items[i].polygon[1]) >= 3

\* the step is a stall write / the last response is of the given route
IsWrite == \E r \in RouteReqs : PostStalls(r)
LastOp(op) == response' # Nil /\ response'[1].op = op

\* C14: a stall write whose body is not a list of stalls with valid polygons
\* (not an array, or a stall whose polygon is missing or has fewer than 3
\* points) is rejected with a validation error and leaves the stored stall
\* sets unchanged.
C14_InvalidWriteRejected ==
    [][(IsWrite /\ ~ValidBody(response'[1].posted)) =>
            /\ response'[1].status >= 400
            /\ stallsByLot' = stallsByLot]_vars

StoredIds == {lots[i].id : i \in DOMAIN lots}

\* a write of an array for L stores exactly that array for L and leaves the
\* stall set of every other lot as it was
WriteReplaces ==
    (IsWrite /\ response'[1].posted.isArray) =>
        LET L == response'[1].lotId
        IN /\ DOMAIN stallsByLot' = DOMAIN stallsByLot \cup {L}
           /\ stallsByLot'[L] = response'[1].posted.items
           /\ \A k \in DOMAIN stallsByLot \ {L} : stallsByLot'[k] = stallsByLot[k]

\* the read of L's stalls returns what is stored for L, with its counts
ReadReturnsStored(L) ==
    /\ response'[1].status = 200
    /\ response'[1].stalls = stallsByLot'[L]
    /\ response'[1].counts = <<summarizeStalls(stallsByLot'[L])>>

\* C15: a stall write for L replaces L's stored stall set with
\* exactly the posted array and leaves every other lot's set unchanged; a
\* following read of L's stalls returns exactly the posted stalls with counts
\* computed from them.
C15_WriteThenRead ==
    [][/\ WriteReplaces
       /\ (LastOp("GET stalls") /\ response'[1].lotId \in DOMAIN stallsByLot') =>
              ReadReturnsStored(response'[1].lotId)]_vars

\* the ids of the entries of the external snapshot held when the read answers
SnapshotIds ==
    IF ~supabase THEN {}
    ELSE {supabaseLotsCache'.list[i].id : i \in DOMAIN supabaseLotsCache'.list}

\* C16: a lot-detail read returns not-found exactly when the id matches no
\* stored lot and no id of an entry of the current external snapshot; in every
\* other case it returns a summary; a not-found result changes no stored state.
C16_DetailNotFound ==
    [][LastOp("GET lot") =>
          LET id == response'[1].lotId
          IN /\ response'[1].status = 404 <=> (id \notin StoredIds /\ id \notin SnapshotIds)
             /\ response'[1].status # 404 =>
                    /\ response'[1].status = 200
                    /\ response'[1].summary # Nil
                    /\ response'[1].summary[1].id = id
             /\ response'[1].status = 404 =>
                    /\ response'[1].summary = Nil
                    /\ UNCHANGED << lots, stallsByLot, capacity >>]_vars

------------------------------------------------------------------------------
(* Distance ranking of GET /api/lots, server.js:194-210 and 438-444.       *)
(* Coordinates are whole degrees.  Distances are kept in kilometres,       *)
(* rounded: the integers of the model checker have 32 bits and the code's  *)
(* stand-in distance of 1e12 m is 10^9 km.  A centroid is Nil or           *)
(* <<[lat, lng]>>; a distance is Nil (null) or <<km>>.                     *)

\* near.split(",").map(Number), line 201
parseNear(near) ==
    CASE near = "40,-83" -> [lat |-> 40, lng |-> -83]
      [] near = "41,-83" -> [lat |-> 41, lng |-> -83]

\* the haversine distance of lines 439-444 (R = 6371000), tabulated over the
\* coordinates the model uses
haversineKm(a, b) ==
    LET dLat == IF a.lat >= b.lat THEN a.lat - b.lat ELSE b.lat - a.lat
        dLng == IF a.lng >= b.lng THEN a.lng - b.lng ELSE b.lng - a.lng
        lats == {a.lat, b.lat}
    IN CASE dLat = 0 /\ dLng = 0 -> 0
         [] dLat = 1 /\ dLng = 0 -> 111     \* 111194.93 m
         [] dLat = 2 /\ dLng = 0 -> 222     \* 222389.85 m
         [] dLat = 0 /\ dLng = 1 /\ lats = {40} -> 85      \* 85179.81 m
         [] dLat = 1 /\ dLng = 1 /\ lats = {40, 41} -> 140 \* 139688.63 m

\* distanceMeters(a, b), lines 438-444: null when a point is missing
distanceMeters(a, b) ==
    IF a = Nil \/ b = Nil THEN Nil ELSE <<haversineKm(a[1], b[1])>>

\* 1e12 (metres) of lines 205 and 208, in kilometres
NoCentroidDistance == 1000 * 1000 * 1000

\* a comparator key that puts the lots without a centroid first
sortKeyZero(l) == IF l.distanceMeters = Nil THEN 0 ELSE l.distanceMeters[1]

\* l.distanceMeters ?? 1e12, lines 205 and 208
sortKey(l) == IF l.distanceMeters = Nil THEN NoCentroidDistance ELSE l.distanceMeters[1]

\* Array.prototype.sort with the comparator of line 205: a stable sort
RECURSIVE sortByDistance(_)
sortByDistance(result) ==
    IF result = <<>> THEN <<>>
    ELSE LET front == sortByDistance(SubSeq(result, 1, Len(result) - 1))
             x == result[Len(result)]
             \* x goes behind every element whose key is not greater
             n == Cardinality({i \in DOMAIN front : sortKey(front[i]) <= sortKey(x)})
         IN SubSeq(front, 1, n) \o <<x>> \o SubSeq(front, n + 1, Len(front))

\* a radius filter that drops the lots at exactly the radius
radiusFilterStrict(result, max) ==
    LET keep(l) == sortKey(l) < max
    IN SelectSeq(result, keep)

\* result.filter((l) => (l.distanceMeters ?? 1e12) <= max), line 208
radiusFilter(result, max) ==
    LET keep(l) == sortKey(l) <= max
    IN SelectSeq(result, keep)

\* lines 194-198: the permit filter
permitFilter(result, permit) ==
    LET keep(l) == \E i \in DOMAIN l.permit_types : l.permit_types[i] = permit
    IN IF Truthy(permit) THEN SelectSeq(result, keep) ELSE result

\* lines 200-210: `near` is an optional string, `radius` Nil or <<Number(radius)>>
rankLots(result, near, radius) ==
    IF ~Truthy(near) THEN result
    ELSE LET origin == <<parseNear(near)>>
             measured == [i \in DOMAIN result |->
                            [result[i] EXCEPT !.distanceMeters =
                                IF result[i].centroid # Nil
                                THEN distanceMeters(origin, result[i].centroid)
                                ELSE Nil]]
             sorted == sortByDistance(measured)
         IN IF radius # Nil THEN radiusFilter(sorted, radius[1]) ELSE sorted

------------------------------------------------------------------------------
(* Specification of the ranking: the stored lots are drawn in Init;       *)
(* listings and lot writes arrive one after the other.  A listing yields   *)
(* at `await fetchSupabaseData()` and applies the filters and the sort of  *)
(* its query to the lots stored when it resumes.  `response` is the        *)
(* response sent last.                                                     *)

MaxRanked == 3      \* stored lots of a ranked listing

Point(lat, lng) == <<[lat |-> lat, lng |-> lng]>>
RankCentroids == {Nil, Point(40, -83), Point(41, -83), Point(39, -83), Point(40, -82)}
RankIds == <<"lot-1", "lot-2", "lot-3", "lot-4", "lot-5">>
RankPermits == <<<<"C">>, <<"A", "B">>, <<"C", "Visitor">>, <<>>, <<"C">>>>

RankedLots ==
    UNION {{[i \in 1..n |-> [id |-> RankIds[i], centroid |-> c[i],
                             permit_types |-> RankPermits[i]]] :
               c \in [1..n -> RankCentroids]} : n \in 1..MaxRanked}

\* the query parameters: the radii are 0 m, 150 km and 1e12 m
RankQueries ==
    [near : {Undefined, "40,-83", "41,-83"},
     radius : {Nil, <<0>>, <<150>>, <<NoCentroidDistance>>},
     permit : {Undefined, "C"}]

\* the fields of a summary the ranking reads, server.js:405-419
rankSummary(l) ==
    [id |-> l.id, centroid |-> l.centroid, permit_types |-> l.permit_types,
     distanceMeters |-> Nil]

\* GET /api/lots with query parameters and no external client, lines 174-212
listRanked(storedLots, q) ==
    rankLots(permitFilter([i \in DOMAIN storedLots |-> rankSummary(storedLots[i])],
                          q.permit),
             q.near, q.radius)

\* POST /api/lots, line 273: the fields the ranking reads of the lot built
\* from the body b; a body is [centroid, permit_types], Nil when absent
postRankedLot(id, b) ==
    [id |-> id, centroid |-> b.centroid,
     permit_types |-> IF b.permit_types = Nil THEN <<"C", "Visitor">>
                      ELSE b.permit_types[1]]

RankedBodies ==
    {[centroid |-> Point(40, -83), permit_types |-> Nil],
     [centroid |-> Nil, permit_types |-> <<<<"A">>>>]}

NoQuery == [near |-> Undefined, radius |-> Nil, permit |-> Undefined]

RankArrives(r) == pc[r].at = "idle" /\ \A q \in 1..(r - 1) : pc[q].at # "idle"

RankInit ==
    /\ lots \in RankedLots
    /\ stallsByLot = <<>>
    /\ capacity = <<>>
    /\ supabase = FALSE
    /\ supabaseLotsCache = EmptyCache
    /\ now = 0
    /\ pc = [r \in Reqs |-> [at |-> "idle", query |-> NoQuery]]
    /\ startedAt = [r \in Reqs |-> 0]
    /\ reply = [r \in Reqs |-> Nil]
    /\ response = Nil
    /\ ResolveIdle
    /\ HistoryIdle
    /\ KernelIdle
    /\ lotsFile = <<lots>>
    /\ stallsFile = Nil /\ capacityFile = Nil /\ snapshotsFile = Nil
    /\ imagesFile = Nil
    /\ ViewIdle
    /\ JoinIdle

\* GET /api/lots arrives with the query q and runs to the await of line 176,
\* where fetchSupabaseData has returned null (line 79)
ListRanked(r) ==
    /\ RankArrives(r)
    /\ \E q \in RankQueries :
          pc' = [pc EXCEPT ![r] = [at |-> "yielded", query |-> q]]
    /\ reply' = [reply EXCEPT ![r] = Returned(Returns(Nil), "unconfigured", NextTurn)]
    /\ UNCHANGED << lots, stallsByLot, capacity, supabase, supabaseLotsCache, now,
                    startedAt, response >>
    /\ UNCHANGED resolveVars /\ UNCHANGED joinVars /\ UNCHANGED historyVars
    /\ UNCHANGED kernelVars
    /\ UNCHANGED fileVars /\ UNCHANGED viewVars

\* the listing resumes, lines 177-212: it reads req.query and the lots stored
\* now; the listings resume in the order they yielded
ListRankedResumes(r) ==
    /\ ResumesNext(r)
    /\ response' = <<[op |-> "GET lots", status |-> 200, query |-> pc[r].query,
                      body |-> listRanked(lots, pc[r].query)]>>
    /\ pc' = [pc EXCEPT ![r] = [at |-> "done", query |-> pc[r].query]]
    /\ reply' = [reply EXCEPT ![r] = Nil]
    /\ UNCHANGED << lots, stallsByLot, capacity, supabase, supabaseLotsCache, now,
                    startedAt >>
    /\ UNCHANGED resolveVars /\ UNCHANGED joinVars /\ UNCHANGED historyVars
    /\ UNCHANGED kernelVars
    /\ UNCHANGED fileVars /\ UNCHANGED viewVars

\* POST /api/lots, lines 270-276: the lot is appended and lots.json written;
\* nanoid(10) returns an id no stored lot has
RankedLotPosted(r) ==
    /\ RankArrives(r)
    /\ \E id \in NanoIds, b \in RankedBodies :
          /\ \A i \in DOMAIN lots : lots[i].id # id
          /\ lots' = Append(lots, postRankedLot(id, b))
          /\ lotsFile' = <<lots'>>
          /\ response' = <<[op |-> "POST lot", status |-> 200,
                            json |-> postRankedLot(id, b)]>>
    /\ pc' = [pc EXCEPT ![r] = [at |-> "done", query |-> NoQuery]]
    /\ UNCHANGED << stallsByLot, capacity, supabase, supabaseLotsCache, now,
                    startedAt, reply >>
    /\ UNCHANGED << stallsFile, capacityFile, snapshotsFile, imagesFile >>
    /\ UNCHANGED resolveVars /\ UNCHANGED joinVars /\ UNCHANGED historyVars
    /\ UNCHANGED kernelVars /\ UNCHANGED viewVars

RankNext ==
    \E r \in Reqs :
        \/ ListRanked(r)
        \/ ListRankedResumes(r)
        \/ RankedLotPosted(r)

RankSpec == RankInit /\ [][RankNext]_vars

------------------------------------------------------------------------------
(* Claims about the ranking, checked under RankSpec *)

\* the response sent last is a listing with an origin: no lot was written
\* since, so the stored lots are the lots it was built from
RankedWithNear ==
    /\ response # Nil /\ response[1].op = "GET lots"
    /\ Truthy(response[1].query.near)

\* the stored lots that pass the permit filter of the query, in stored order
Candidates ==
    LET keep(l) == \/ ~Truthy(response[1].query.permit)
                   \/ \E i \in DOMAIN l.permit_types :
                         l.permit_types[i] = response[1].query.permit
    IN SelectSeq(lots, keep)

\* the distance of a lot from the origin of the query
DistanceOf(l) == haversineKm(parseNear(response[1].query.near), l.centroid[1])

\* C17: when a listing is requested with an origin (near), the returned lots
\* are in non-decreasing order of distance from the origin and every lot
\* without a centroid comes after every lot that has one.
C17_SortedByDistance ==
    RankedWithNear =>
        LET b == response[1].body
        IN /\ \A i \in DOMAIN b :
                b[i].distanceMeters =
                    IF b[i].centroid = Nil THEN Nil ELSE <<DistanceOf(b[i])>>
           /\ \A i, j \in DOMAIN b :
                i < j =>
                    /\ ~(b[i].centroid = Nil /\ b[j].centroid # Nil)
                    /\ (b[i].centroid # Nil /\ b[j].centroid # Nil) =>
                            DistanceOf(b[i]) <= DistanceOf(b[j])
           /\ response[1].query.radius = Nil =>
                    {b[i].id : i \in DOMAIN b}
                        = {Candidates[i].id : i \in DOMAIN Candidates}

\* three stored lots came back in another order: the first one stored has no
\* centroid and is last, the nearer of the other two is first
C17_Witness ==
    /\ RankedWithNear /\ response[1].query.radius = Nil
    /\ Len(lots) = 3 /\ lots[1].centroid = Nil
    /\ Len(response[1].body) = 3
    /\ response[1].body[1].id = lots[3].id
    /\ response[1].body[2].id = lots[2].id
    /\ response[1].body[3].id = lots[1].id
    /\ DistanceOf(lots[3]) < DistanceOf(lots[2])

\* the listing for the same query without its radius
SortedOnly ==
    listRanked(lots, [response[1].query EXCEPT !.radius = Nil])

RankedWithRadius == RankedWithNear /\ response[1].query.radius # Nil

\* C18 (as stated): with near and radius the result is the distance-sorted
\* list restricted to the lots whose distance is <= radius, in unchanged
\* relative order; lots without a centroid are excluded.
C18_RadiusAfterSort ==
    RankedWithRadius =>
        LET keep(l) == l.centroid # Nil /\ DistanceOf(l) <= response[1].query.radius[1]
        IN response[1].body = SelectSeq(SortedOnly, keep)

\* C18 (amended): with near and radius the result is the distance-sorted list
\* restricted to the lots whose distance is <= radius, in unchanged relative
\* order; a lot without a centroid counts as 1e12 m away, so it is excluded
\* for every radius below 1e12 and kept, after the others, from 1e12 on.
C18_RadiusAfterSortFar ==
    RankedWithRadius =>
        LET r == response[1].query.radius[1]
            keep(l) == IF l.centroid # Nil THEN DistanceOf(l) <= r
                       ELSE r >= NoCentroidDistance
        IN response[1].body = SelectSeq(SortedOnly, keep)

\* a radius of 150 km dropped the first stored lot, which has no centroid, and
\* kept the other two in sorted order, the reverse of the stored order
C18_Witness ==
    /\ RankedWithRadius /\ response[1].query.radius = <<150>>
    /\ Len(lots) = 3 /\ lots[1].centroid = Nil
    /\ Len(response[1].body) = 2
    /\ response[1].body[1].id = lots[3].id
    /\ response[1].body[2].id = lots[2].id
    /\ DistanceOf(lots[3]) < DistanceOf(lots[2])

------------------------------------------------------------------------------
(* The forecast, server.js:286-299 and 445-450.  An observation is         *)
(* [weekday, slot, open].  Quantiles of integers at q = 1/4, 1/2, 3/4 are  *)
(* multiples of 1/4: a quantile is kept as its fourfold, an integer.       *)

\* [...arr].sort((x, y) => x - y), line 446
RECURSIVE sortAscending(_)
sortAscending(arr) ==
    IF arr = <<>> THEN <<>>
    ELSE LET front == sortAscending(SubSeq(arr, 1, Len(arr) - 1))
             x == arr[Len(arr)]
             n == Cardinality({i \in DOMAIN front : front[i] <= x})
         IN SubSeq(front, 1, n) \o <<x>> \o SubSeq(front, n + 1, Len(front))

\* an interpolation that adds the fraction itself, not the fraction of the gap
quantileAddsRest(arr, q4) ==
    LET a == sortAscending(arr)
        pos4 == (Len(a) - 1) * q4
        base == pos4 \div 4
        rest4 == pos4 % 4
    IN IF base + 2 <= Len(a) THEN 4 * a[base + 1] + rest4
       ELSE 4 * a[base + 1]

\* quantile(arr, q), lines 445-450, for q = q4 / 4; the result is fourfold.
\* Indices are 0-based in the code: a[base] is a[base + 1] here.
quantile(arr, q4) ==
    LET a == sortAscending(arr)
        pos4 == (Len(a) - 1) * q4
        base == pos4 \div 4
        rest4 == pos4 % 4
    IN IF base + 2 <= Len(a)
       THEN 4 * a[base + 1] + rest4 * (a[base + 2] - a[base + 1])
       ELSE 4 * a[base + 1]

\* a filter on the weekday alone
histAnySlot(log, weekday, slot) ==
    LET hit(s) == s.weekday = weekday
    IN SelectSeq(log, hit)

\* (snapshots[lotId] || []).filter(...), line 290
hist(log, weekday, slot) ==
    LET hit(s) == s.weekday = weekday /\ s.slot = slot
    IN SelectSeq(log, hit)

\* Math.round(alpha * a + (1 - alpha) * b), line 295, with alpha = 0.6, for an
\* integer a and a fourfold b4: round((24 a + 4 b4) / 40), halves going up
blend(a, b4) == (6 * a + b4 + 5) \div 10

\* lines 291-297: the three numbers of the forecast, each Nil (null) or <<n>>;
\* the percentiles are fourfold
forecast(log, weekday, slot) ==
    LET h == hist(log, weekday, slot)
        values == [i \in DOMAIN h |-> h[i].open]
        median == IF Len(values) # 0 THEN <<quantile(values, 2)>> ELSE Nil
        lastWeek == IF Len(h) # 0 THEN <<h[Len(h)].open>> ELSE Nil
        \* lastWeek ?? median ?? 0 and median ?? lastWeek ?? 0; the two are null
        \* together (both come from h), so no fallback is ever taken
        first == IF lastWeek # Nil THEN lastWeek[1]
                 ELSE IF median # Nil THEN median[1] \div 4 ELSE 0
        second == IF median # Nil THEN median[1]
                  ELSE IF lastWeek # Nil THEN 4 * lastWeek[1] ELSE 0
    IN [open_expected |-> IF median = Nil /\ lastWeek = Nil THEN Nil
                          ELSE <<blend(first, second)>>,
        open_p25 |-> IF Len(values) # 0 THEN <<quantile(values, 1)>> ELSE Nil,
        open_p75 |-> IF Len(values) # 0 THEN <<quantile(values, 3)>> ELSE Nil]

\* GET /api/lots/:id/forecast, lines 286-299: `weekday` and `slot` are the query
\* parameters (Nil / Undefined when absent), `today` is new Date().getDay()
getForecast(history, lotId, weekday, slot, today) ==
    LET wd == IF weekday # Nil THEN weekday[1] ELSE today
        sl == IF IsNullish(slot) THEN "10:00" ELSE slot
        f == forecast(GetOr(history, lotId), wd, sl)
    IN [op |-> "GET forecast", lotId |-> lotId, weekday |-> wd, slot |-> sl,
        open_expected |-> f.open_expected, open_p25 |-> f.open_p25,
        open_p75 |-> f.open_p75]

------------------------------------------------------------------------------
(* Specification of the forecast: the log of one lot is drawn in Init,     *)
(* each request computes the forecast for one (weekday, slot).             *)

MaxObs == 4         \* observations in the log of a lot

Observations == [weekday : {1, 2}, slot : {"10:00", "10:10"}, open : {0, 1, 4}]
                    \ {[weekday |-> 2, slot |-> "10:10", open |-> k] : k \in {0, 1, 4}}

ForecastInit ==
    /\ snapshots \in {("lot-a" :> log) : log \in SeqsUpTo(Observations, MaxObs)}
    /\ lots = <<>> /\ stallsByLot = <<>> /\ capacity = <<>>
    /\ supabase = FALSE
    /\ supabaseLotsCache = EmptyCache
    /\ now = 0
    /\ pc = <<>> /\ startedAt = <<>> /\ reply = <<>>
    /\ response = Nil
    /\ ResolveIdle /\ JoinIdle
    /\ KernelIdle
    /\ FilesIdle
    /\ ViewIdle

GetForecast ==
    /\ response = Nil
    /\ \E lotId \in {"lot-a", "nope"}, weekday \in {Nil, <<1>>, <<2>>},
          slot \in {Undefined, "10:00", "10:10"}, today \in {1, 2} :
          response' = <<getForecast(snapshots, lotId, weekday, slot, today)>>
    /\ UNCHANGED << lots, stallsByLot, capacity, supabase, supabaseLotsCache, now,
                    pc, startedAt, reply >>
    /\ UNCHANGED resolveVars /\ UNCHANGED joinVars /\ UNCHANGED historyVars
    /\ UNCHANGED kernelVars
    /\ UNCHANGED fileVars /\ UNCHANGED viewVars

ForecastNext == GetForecast

ForecastSpec == ForecastInit /\ [][ForecastNext]_vars

------------------------------------------------------------------------------
(* Claims about the forecast, checked under ForecastSpec *)

\* the log of the lot asked about, and the positions of the observations whose
\* weekday and slot equal those of the request
AskedLog == GetOr(snapshots, response[1].lotId)
Matching ==
    {i \in DOMAIN AskedLog : /\ AskedLog[i].weekday = response[1].weekday
                             /\ AskedLog[i].slot = response[1].slot}

\* C19: when all observations matching (weekday, slot) have the same open
\* count k, the forecast returns expected = k and p25 = p75 = k, for any
\* number (>= 1) of matching observations.
C19_ConstantHistory ==
    (response # Nil /\ Matching # {}) =>
        \A k \in {AskedLog[i].open : i \in Matching} :
            (\A i \in Matching : AskedLog[i].open = k) =>
                /\ response[1].open_expected = <<k>>
                /\ response[1].open_p25 = <<4 * k>>
                /\ response[1].open_p75 = <<4 * k>>

\* four matching observations of 4 open spaces, the log as long as it can be
C19_Witness ==
    /\ response # Nil /\ Cardinality(Matching) = MaxObs
    /\ \A i \in Matching : AskedLog[i].open = 4
    /\ response[1].open_expected = <<4>>

\* the k-th smallest of the matching open counts
KthSmallest(k) ==
    CHOOSE v \in {AskedLog[i].open : i \in Matching} :
        /\ Cardinality({i \in Matching : AskedLog[i].open < v}) < k
        /\ Cardinality({i \in Matching : AskedLog[i].open <= v}) >= k

\* twice the median: the middle value twice, or the sum of the two middle ones
TwiceMedian ==
    LET n == Cardinality(Matching)
    IN KthSmallest((n + 1) \div 2) + KthSmallest(n \div 2 + 1)

LastMatching == AskedLog[CHOOSE i \in Matching : \A j \in Matching : j <= i].open

\* C20: the forecast considers only the observations whose weekday and slot
\* equal the query exactly; expected is round(0.6 * last + 0.4 * median), last
\* being the open count of the last matching observation in log order and
\* median the 0.5 quantile of the matching open counts; when no observation
\* matches, expected, p25 and p75 are all null.
C20_BlendOfLastAndMedian ==
    response # Nil =>
        IF Matching = {}
        THEN /\ response[1].open_expected = Nil
             /\ response[1].open_p25 = Nil
             /\ response[1].open_p75 = Nil
        ELSE \E e \in 0..4 :
                \* e = round(x), x = (6 * last + 2 * twice the median) / 10
                /\ 10 * e - 5 <= 6 * LastMatching + 2 * TwiceMedian
                /\ 6 * LastMatching + 2 * TwiceMedian < 10 * e + 5
                /\ response[1].open_expected = <<e>>

\* matching observations 4, 1 and then 1 among others that do not match:
\* last = 1, median = 1, and an expected value of 1 although the log ends
\* with an observation of another slot
C20_Witness ==
    /\ response # Nil /\ Cardinality(Matching) = 3
    /\ Len(AskedLog) = 4 /\ 4 \notin Matching
    /\ AskedLog[4].open = 4
    /\ AskedLog[1].open = 4 /\ LastMatching = 1 /\ TwiceMedian = 2
    /\ response[1].open_expected = <<1>>

------------------------------------------------------------------------------
(* Specification of the kernel: a geometry and a point are drawn in Init,  *)
(* the action calls geometryContainsPoint.  Each simple polygon comes with *)
(* triangles that cover exactly its region.                                *)

MaxCoord == 4       \* the points are the halves and thirds from -1 to MaxCoord

KernelShapes ==
    << \* a square, counter-clockwise, open ring
       [ring |-> <<<<0, 0>>, <<4, 0>>, <<4, 4>>, <<0, 4>>>>,
        triangles |-> {<<<<0, 0>>, <<4, 0>>, <<4, 4>>>>, <<<<0, 0>>, <<4, 4>>, <<0, 4>>>>}],
       \* the same square as a closed ring
       [ring |-> <<<<0, 0>>, <<4, 0>>, <<4, 4>>, <<0, 4>>, <<0, 0>>>>,
        triangles |-> {<<<<0, 0>>, <<4, 0>>, <<4, 4>>>>, <<<<0, 0>>, <<4, 4>>, <<0, 4>>>>}],
       \* a concave L
       [ring |-> <<<<0, 0>>, <<4, 0>>, <<4, 2>>, <<2, 2>>, <<2, 4>>, <<0, 4>>>>,
        triangles |-> {<<<<0, 0>>, <<4, 0>>, <<4, 2>>>>, <<<<0, 0>>, <<4, 2>>, <<0, 2>>>>,
                       <<<<0, 2>>, <<2, 2>>, <<2, 4>>>>, <<<<0, 2>>, <<2, 4>>, <<0, 4>>>>}],
       \* a concave chevron with slanted edges
       [ring |-> <<<<0, 0>>, <<2, 1>>, <<4, 0>>, <<2, 4>>>>,
        triangles |-> {<<<<0, 0>>, <<2, 1>>, <<2, 4>>>>, <<<<2, 1>>, <<4, 0>>, <<2, 4>>>>}],
       \* a clockwise triangle
       [ring |-> <<<<1, 1>>, <<1, 5>>, <<5, 1>>>>,
        triangles |-> {<<<<1, 1>>, <<1, 5>>, <<5, 1>>>>}],
       \* a concave comb, closed ring, clockwise
       [ring |-> <<<<0, 0>>, <<0, 3>>, <<1, 3>>, <<1, 1>>, <<2, 1>>, <<2, 3>>,
                   <<3, 3>>, <<3, 0>>, <<0, 0>>>>,
        triangles |-> {<<<<0, 0>>, <<3, 0>>, <<3, 1>>>>, <<<<0, 0>>, <<3, 1>>, <<0, 1>>>>,
                       <<<<0, 1>>, <<1, 1>>, <<1, 3>>>>, <<<<0, 1>>, <<1, 3>>, <<0, 3>>>>,
                       <<<<2, 1>>, <<3, 1>>, <<3, 3>>>>, <<<<2, 1>>, <<3, 3>>, <<2, 3>>>>}],
       \* a counter-clockwise triangle with a slanted edge
       [ring |-> <<<<0, 0>>, <<4, 0>>, <<0, 4>>>>,
        triangles |-> {<<<<0, 0>>, <<4, 0>>, <<0, 4>>>>}] >>

ShapePolygon(s) == [type |-> "Polygon", coordinates |-> <<KernelShapes[s].ring>>]
ShapeMultiPolygon(s, u) ==
    [type |-> "MultiPolygon",
     coordinates |-> <<<<KernelShapes[s].ring>>, <<KernelShapes[u].ring>>>>]

SimpleGeometries ==
    {ShapePolygon(s) : s \in DOMAIN KernelShapes}
        \cup {ShapeMultiPolygon(1, 5), ShapeMultiPolygon(4, 3), ShapeMultiPolygon(6, 5)}

\* missing, unsupported and degenerate geometries
DegenerateGeometries ==
    {NoGeometry,
     [type |-> "LineString", coordinates |-> <<>>],
     [type |-> "GeometryCollection", coordinates |-> <<>>],
     [type |-> "Polygon", coordinates |-> <<>>],
     [type |-> "Polygon", coordinates |-> << <<>> >>],
     [type |-> "Polygon", coordinates |-> << <<<<0, 0>>>> >>],
     [type |-> "Polygon", coordinates |-> << <<<<0, 0>>, <<4, 4>>>> >>],
     [type |-> "MultiPolygon", coordinates |-> <<>>],
     [type |-> "MultiPolygon", coordinates |-> << <<>> >>],
     [type |-> "MultiPolygon", coordinates |-> << <<KernelShapes[1].ring>>, <<>> >>],
     [type |-> "MultiPolygon", coordinates |-> << <<>>, <<KernelShapes[1].ring>> >>]}

\* the point (x / d, y / d) in doubles, for halves and thirds
KernelPoints ==
    UNION {[x : -d .. d * MaxCoord, y : -d .. d * MaxCoord, d : {d}] : d \in {2, 3}}

KernelInit ==
    /\ argGeometry \in SimpleGeometries \cup DegenerateGeometries
    /\ argPoint \in KernelPoints
    /\ contains = Nil
    /\ lots = <<>> /\ stallsByLot = <<>> /\ capacity = <<>>
    /\ ServerIdle
    /\ ResolveIdle
    /\ JoinIdle
    /\ HistoryIdle
    /\ FilesIdle
    /\ ViewIdle

ContainsPoint ==
    /\ contains = Nil
    /\ contains' = <<geometryContainsPoint(argGeometry, argPoint)>>
    /\ UNCHANGED << argGeometry, argPoint >>
    /\ UNCHANGED serverVars /\ UNCHANGED resolveVars /\ UNCHANGED joinVars
    /\ UNCHANGED historyVars
    /\ UNCHANGED fileVars /\ UNCHANGED viewVars

KernelNext == ContainsPoint

KernelSpec == KernelInit /\ [][KernelNext]_vars

------------------------------------------------------------------------------
(* Containment by area, independent of ray casting: a point is strictly    *)
(* inside a shape when it lies in one of the shape's triangles and on no   *)
(* edge of the ring.  The point is the pair of doubles the code is called  *)
(* with, and the areas are computed without rounding.                      *)

\* the integer k, and a number [neg, m, e] times the integer k, not rounded
exactOf(k) == [neg |-> k < 0, m |-> natOf(Abs(k)), e |-> 0]
scaled(a, k) == [neg |-> a.neg # (k < 0), m |-> timesSmall(a.m, Abs(k)), e |-> a.e]

\* the sign of twice the signed area of (a, b, p):
\* (bx - ax) * (py - ay) - (by - ay) * (px - ax)
Cross(a, b, p) ==
    LET kx == b[1] - a[1]
        ky == b[2] - a[2]
    IN signOf(exactSum(exactSum(scaled(quotientOf(p.y, p.d), kx),
                                scaled(quotientOf(p.x, p.d), -ky)),
                       exactOf(ky * a[1] - kx * a[2])))

\* lo <= v <= hi for a double v and integers lo, hi
Within(v, lo, hi) == ~lessThan(v, doubleOf(lo)) /\ ~lessThan(doubleOf(hi), v)

OnSegment(p, a, b) ==
    /\ Cross(a, b, p) = 0
    /\ Within(quotientOf(p.x, p.d), Min(a[1], b[1]), Max(a[1], b[1]))
    /\ Within(quotientOf(p.y, p.d), Min(a[2], b[2]), Max(a[2], b[2]))

OnBoundary(p, ring) ==
    \E i \in DOMAIN ring :
        OnSegment(p, ring[IF i = 1 THEN Len(ring) ELSE i - 1], ring[i])

InTriangle(p, tri) ==
    LET c1 == Cross(tri[1], tri[2], p)
        c2 == Cross(tri[2], tri[3], p)
        c3 == Cross(tri[3], tri[1], p)
    IN \/ (c1 >= 0 /\ c2 >= 0 /\ c3 >= 0)
       \/ (c1 <= 0 /\ c2 <= 0 /\ c3 <= 0)

StrictlyInside(p, shape) ==
    /\ ~OnBoundary(p, shape.ring)
    /\ \E tri \in shape.triangles : InTriangle(p, tri)

StrictlyOutside(p, shape) ==
    /\ ~OnBoundary(p, shape.ring)
    /\ \A tri \in shape.triangles : ~InTriangle(p, tri)

MultiPairs == {<<1, 5>>, <<4, 3>>, <<6, 5>>}

Called == contains # Nil
Outcome == contains[1]

\* C21: ray casting agrees with containment by area: for a simple polygon
\* (convex or concave, open or closed ring) the call returns true for a point
\* strictly inside and false for a point strictly outside; for a MultiPolygon
\* and a point on no member's boundary it returns true iff the point is
\* strictly inside the first ring of at least one member.
C21_RayCastingIsContainment ==
    Called =>
        /\ \A s \in DOMAIN KernelShapes :
              argGeometry = ShapePolygon(s) =>
                  /\ ~Outcome.throws
                  /\ StrictlyInside(argPoint, KernelShapes[s]) => Outcome.value
                  /\ StrictlyOutside(argPoint, KernelShapes[s]) => ~Outcome.value
        /\ \A m \in MultiPairs :
              (/\ argGeometry = ShapeMultiPolygon(m[1], m[2])
               /\ ~OnBoundary(argPoint, KernelShapes[m[1]].ring)
               /\ ~OnBoundary(argPoint, KernelShapes[m[2]].ring)) =>
                  /\ ~Outcome.throws
                  /\ Outcome.value <=>
                        \E k \in {m[1], m[2]} : StrictlyInside(argPoint, KernelShapes[k])

\* C22: the call returns false and does not throw for a missing, unsupported
\* or degenerate geometry.
C22_DegenerateIsFalse ==
    (Called /\ argGeometry \in DegenerateGeometries) =>
        (~Outcome.throws /\ ~Outcome.value)

------------------------------------------------------------------------------
(* Specification of repeated resolution: the stored data of one lot and    *)
(* the snapshot argument are drawn in Init and stay as they are; each step *)
(* calls summarizeLot(l, supaData) once more.  `response` is the list of   *)
(* the summaries returned so far.                                          *)

MaxResolves == 2

\* The objects a call summarizeLot(l, supaData) holds a reference to and
\* could write through: the stored lot's metadata object and permit array, and
\* the objects the call allocates.  A heap maps each to its content (Nil
\* before it is allocated).
LotMetadata == "l.metadata"
LotPermits == "l.permit_types"
NewMetadata == "{ ...l.metadata }"
NewPermits == "[...l.permit_types]"
MergedPermits == "Array.from(merged)"

heapOf(l) ==
    (LotMetadata :> l.metadata) @@ (LotPermits :> l.permit_types)
      @@ (NewMetadata :> Nil) @@ (NewPermits :> Nil) @@ (MergedPermits :> Nil)

\* `const metadata = l.metadata`: the name bound to the stored object itself
aliasMetadata(heap) == [heap |-> heap, object |-> LotMetadata]

\* line 302, `const metadata = { ...(l.metadata || {}) }`: a new object with
\* the keys of the stored one (the values of nested keys are shared), and the
\* name `metadata` bound to it
spreadMetadata(heap) ==
    [heap |-> [heap EXCEPT ![NewMetadata] = heap[LotMetadata]], object |-> NewMetadata]

\* line 309, `let permitTypes = [...l.permit_types]`
copyPermits(heap) ==
    [heap |-> [heap EXCEPT ![NewPermits] = heap[LotPermits]], object |-> NewPermits]

\* `object.key = value`
assignKey(heap, object, key, value) ==
    [heap EXCEPT ![object] = (key :> value) @@ @]

\* lines 364-367 and 394-397: `permitTypes = Array.from(merged)` allocates the
\* merged array and binds the name to it; nothing is written into an array
mergeInto(heap, permitTypes, e) ==
    IF Len(e.permits) # 0
    THEN [heap |-> [heap EXCEPT ![MergedPermits] = mergePermits(heap[permitTypes], e)],
          object |-> MergedPermits]
    ELSE [heap |-> heap, object |-> permitTypes]

\* the assignments of the external branch, lines 349, 362, 363, 368, 369
externalAssignments(heap, metadata, l, e) ==
    LET capacityVal == e.stats.total
        occupiedVal == Min(e.stats.occupied, capacityVal)
        h1 == assignKey(heap, metadata, "osmId",
                  IF Truthy(heap[metadata].osmId) THEN heap[metadata].osmId
                  ELSE IF Truthy(e.row.location) THEN e.row.location
                  ELSE heap[metadata].osmId)
        h2 == assignKey(h1, metadata, "spaceCount", <<capacityVal>>)
        h3 == assignKey(h2, metadata, "occupiedCount", <<occupiedVal>>)
        h4 == assignKey(h3, metadata, "pricing",
                  CoalesceStr(e.row.pricing,
                      CoalesceStr(h3[metadata].pricing,
                          derivePricingInfo(h3[metadata].tags, l.name))))
    IN assignKey(h4, metadata, "supabase", <<supabaseMeta(e)>>)

\* the assignments of computeSeedCounts, lines 325, 326, 334
seedAssignments(heap, metadata, l, stallsOfLot, capLog) ==
    Only({Only({Only({IF IsNullish(h2[metadata].pricing)
                      THEN assignKey(h2, metadata, "pricing",
                               derivePricingInfo(h2[metadata].tags, l.name))
                      ELSE h2 :
                        h2 \in {assignKey(h1, metadata, "occupiedCount",
                                    Coalesce(h1[metadata].occupiedCount,
                                             <<localCounts.occupied>>))}}) :
                  h1 \in {assignKey(heap, metadata, "spaceCount",
                              Coalesce(heap[metadata].spaceCount,
                                       <<localCounts.total>>))}}) :
            localCounts \in {computeSeedCounts([l EXCEPT !.metadata = heap[metadata]],
                                               stallsOfLot, capLog).counts}})

\* the assignments of the local branch with a matching entry, lines 384, 399
entryAssignments(heap, metadata, l, e) ==
    LET h1 == assignKey(heap, metadata, "supabase", <<supabaseMeta(e)>>)
    IN IF IsNullish(h1[metadata].pricing)
       THEN assignKey(h1, metadata, "pricing",
                CoalesceStr(e.row.pricing, derivePricingInfo(h1[metadata].tags, l.name)))
       ELSE h1

\* the writes of lines 311-399, after the two copies: `copied` is the heap and
\* the array the name `permitTypes` is bound to, `metadata` the object the name
\* `metadata` is bound to, `supaEntry` the entry found for the lot
branchAssignments(copied, metadata, l, supaEntry, stallsMap, capacityMap) ==
    IF supaEntry # Nil /\ ~isProtected([l EXCEPT !.metadata = copied.heap[metadata]])
    THEN mergeInto(externalAssignments(copied.heap, metadata, l, supaEntry[1]),
                   copied.object, supaEntry[1])
    ELSE Only({IF supaEntry # Nil
               THEN mergeInto(entryAssignments(h, metadata, l, supaEntry[1]),
                              copied.object, supaEntry[1])
               ELSE [heap |-> h, object |-> copied.object] :
                 h \in {seedAssignments(copied.heap, metadata, l,
                                        GetOr(stallsMap, l.id),
                                        GetOr(capacityMap, l.id))}})

\* every write of a call of summarizeLot, lines 301-405, in order: the heap it
\* leaves and the objects its names `metadata` and `permitTypes` end bound to
summarizeLotEffect(l, data, stallsMap, capacityMap) ==
    Only({Only({Only({[heap |-> merged.heap, metadata |-> bound.object,
                       permitTypes |-> merged.object] :
                        merged \in {branchAssignments(
                                        copied, bound.object, l,
                                        lookupEntry([l EXCEPT !.metadata =
                                                        copied.heap[bound.object]], data),
                                        stallsMap, capacityMap)}}) :
                  copied \in {copyPermits(bound.heap)}}) :
            bound \in {spreadMetadata(heapOf(l))}})

\* a metadata object as the record of the model: a key never assigned is Nil
metadataValue(object) ==
    [osmId |-> object.osmId, spaceCount |-> object.spaceCount,
     occupiedCount |-> object.occupiedCount, pricing |-> object.pricing,
     tags |-> object.tags,
     supabase |-> IF "supabase" \in DOMAIN object THEN object.supabase ELSE Nil]

\* the stored lot after the call: what the heap holds for its two objects
lotAfterSummarize(l, data, stallsMap, capacityMap) ==
    Only({[l EXCEPT !.metadata = effect.heap[LotMetadata],
                    !.permit_types = effect.heap[LotPermits]] :
            effect \in {summarizeLotEffect(l, data, stallsMap, capacityMap)}})

\* the summary returned, lines 407-420: its metadata and permit_types are the
\* objects the names are bound to at the end
summaryReturned(l, data, stallsMap, capacityMap) ==
    Only({[summarizeLot(l, data, stallsMap, capacityMap) EXCEPT
              !.metadata = metadataValue(effect.heap[effect.metadata]),
              !.permit_types = effect.heap[effect.permitTypes]] :
            effect \in {summarizeLotEffect(l, data, stallsMap, capacityMap)}})

RepeatSnapshots ==
    {Nil} \cup
    UNION {{<<[fetchedAt |-> 1, list |-> snapshotList(RawOfRow(row, sp))]>> :
                sp \in SpotLists(row.lot_name)} : row \in ExternalRows}

RepeatInit ==
    /\ \E l \in StoredLots, st \in StallLists, cl \in CapLogs :
          /\ lots = <<l>>
          /\ stallsByLot = (l.id :> st)
          /\ capacity = (l.id :> cl)
    /\ supabase = TRUE
    /\ supabaseLotsCache = EmptyCache
    /\ now = 0
    /\ pc = <<>> /\ startedAt = <<>> /\ reply = <<>> /\ response = <<>>
    /\ supaData \in RepeatSnapshots
    /\ summary = Nil /\ stallCounts = Nil /\ onlyLot = Nil
    /\ HistoryIdle
    /\ KernelIdle
    /\ FilesIdle
    /\ ViewIdle
    /\ JoinIdle

Resolve ==
    /\ Len(response) < MaxResolves
    /\ \E s \in {summaryReturned(lots[1], supaData, stallsByLot, capacity)} :
          /\ summary' = <<s>>
          /\ response' = Append(response, s)
          /\ lots' = <<lotAfterSummarize(lots[1], supaData, stallsByLot, capacity)>>
    /\ UNCHANGED << stallsByLot, capacity, supabase, supabaseLotsCache, now,
                    pc, startedAt, reply >>
    /\ UNCHANGED << supaData, stallCounts, onlyLot >>
    /\ UNCHANGED joinVars /\ UNCHANGED historyVars /\ UNCHANGED kernelVars
    /\ UNCHANGED fileVars /\ UNCHANGED viewVars

RepeatNext == Resolve

RepeatSpec == RepeatInit /\ [][RepeatNext]_vars

SameResolution(a, b) ==
    /\ a.counts = b.counts
    /\ a.permit_types = b.permit_types
    /\ a.metadata = b.metadata

\* the summary assembled from the heap is the value of summarizeLot on the
\* stored lot
ReturnedIsSummarized ==
    summary # Nil => summary[1] = summarizeLot(lots[1], supaData, stallsByLot, capacity)

\* C23: a resolution leaves the stored lot record (and its metadata) as it
\* was, and a second resolution, of the lot as the first one left it and the
\* same stalls, capacity log and snapshot, returns the same counts, permit
\* types and metadata as the one before.
C23_ResolutionRepeatable ==
    [][ /\ lots' = lots
        /\ response # <<>> =>
              SameResolution(response'[Len(response')], response[Len(response)]) ]_vars

\* a lot that matches a snapshot entry was resolved twice, and the returned
\* metadata carries keys the stored metadata does not have
C23_Witness ==
    /\ Len(response) = 2
    /\ supaData # Nil
    /\ LotMatchesEntry /\ ~LotIsProtected
    /\ response[2].metadata # lots[1].metadata

------------------------------------------------------------------------------
(* The periodic sampler, server.js:583-606, and the files it works on.     *)
(* Time is counted in sampler periods of ten minutes since a Sunday 00:00. *)

HistoryLimit == 2000        \* arr.slice(-2000), server.js:603

\* readJSON(name, fallback), server.js:67-72: the fallback when the file is missing
readJSON(file, fallback) == IF file = Nil THEN fallback ELSE file[1]

\* now.getDay()
weekdayOf(t) == (t \div 144) % 7

\* now.toTimeString().slice(0, 5) on a ten-minute boundary
slotOf(t) ==
    LET names == <<
       "00:00", "00:10", "00:20", "00:30", "00:40", "00:50", "01:00",
       "01:10", "01:20", "01:30", "01:40", "01:50", "02:00", "02:10",
       "02:20", "02:30", "02:40", "02:50", "03:00", "03:10", "03:20",
       "03:30", "03:40", "03:50", "04:00", "04:10", "04:20", "04:30",
       "04:40", "04:50", "05:00", "05:10", "05:20", "05:30", "05:40",
       "05:50", "06:00", "06:10", "06:20", "06:30", "06:40", "06:50",
       "07:00", "07:10", "07:20", "07:30", "07:40", "07:50", "08:00",
       "08:10", "08:20", "08:30", "08:40", "08:50", "09:00", "09:10",
       "09:20", "09:30", "09:40", "09:50", "10:00", "10:10", "10:20",
       "10:30", "10:40", "10:50", "11:00", "11:10", "11:20", "11:30",
       "11:40", "11:50", "12:00", "12:10", "12:20", "12:30", "12:40",
       "12:50", "13:00", "13:10", "13:20", "13:30", "13:40", "13:50",
       "14:00", "14:10", "14:20", "14:30", "14:40", "14:50", "15:00",
       "15:10", "15:20", "15:30", "15:40", "15:50", "16:00", "16:10",
       "16:20", "16:30", "16:40", "16:50", "17:00", "17:10", "17:20",
       "17:30", "17:40", "17:50", "18:00", "18:10", "18:20", "18:30",
       "18:40", "18:50", "19:00", "19:10", "19:20", "19:30", "19:40",
       "19:50", "20:00", "20:10", "20:20", "20:30", "20:40", "20:50",
       "21:00", "21:10", "21:20", "21:30", "21:40", "21:50", "22:00",
       "22:10", "22:20", "22:30", "22:40", "22:50", "23:00", "23:10",
       "23:20", "23:30", "23:40", "23:50" >>
    IN names[(t % 144) + 1]

\* the first n elements
firstN(arr, n) == SubSeq(arr, 1, Min(n, Len(arr)))

\* arr.slice(-n): the last n elements
lastN(arr, n) == SubSeq(arr, Max(Len(arr) - n, 0) + 1, Len(arr))

\* Math.max(0, Math.min(last.capacity, last.occupied + delta))
clampOccupied(last, delta) == Max(0, Min(last.capacity, last.occupied + delta))

\* the capacity map after the first loop, lines 587-593; `deltas` gives the
\* rounded random step of each position of lots.json
RECURSIVE sampleCapacity(_, _, _, _)
sampleCapacity(cap, lotList, deltas, t) ==
    IF lotList = <<>> THEN cap
    ELSE LET l == Head(lotList)
             list == GetOr(cap, l.id)
             last == IF list # <<>> THEN list[Len(list)]
                     ELSE [capacity |-> 200, occupied |-> 80]
             next == [capacity |-> last.capacity,
                      occupied |-> clampOccupied(last, Head(deltas)),
                      source |-> "mock", observed_at |-> t]
             cap2 == [k \in DOMAIN cap \cup {l.id} |->
                        IF k = l.id THEN Append(list, next) ELSE cap[k]]
         IN sampleCapacity(cap2, Tail(lotList), Tail(deltas), t)

\* the snapshots map after the second loop, lines 599-604
RECURSIVE sampleSnapshots(_, _, _, _)
sampleSnapshots(snaps, lotList, stallsMap, t) ==
    IF lotList = <<>> THEN snaps
    ELSE LET l == Head(lotList)
             arr == GetOr(snaps, l.id)
             counts == summarizeStalls(GetOr(stallsMap, l.id))
             obs == [weekday |-> weekdayOf(t), slot |-> slotOf(t),
                     open |-> counts.open, occupied |-> counts.occupied,
                     detected_at |-> t]
             snaps2 == [k \in DOMAIN snaps \cup {l.id} |->
                          IF k = l.id THEN lastN(Append(arr, obs), HistoryLimit)
                          ELSE snaps[k]]
         IN sampleSnapshots(snaps2, Tail(lotList), stallsMap, t)

------------------------------------------------------------------------------
(* Specification of one server process with its sampler.  The process      *)
(* loads capacity.json and snapshots.json once, at start (lines 166-167);  *)
(* lots.json and stalls.json are rewritten after every assignment to       *)
(* `lots` and `stallsByLot` (lines 274, 282), so the sampler's reads of    *)
(* these two files return the values of the variables.  Init is the state  *)
(* of a process started after `n` earlier sampler runs.  A lot-detail read *)
(* yields at `await fetchSupabaseData()`; requests that arrived with it    *)
(* are handled before it resumes, the scheduled job is not.                *)

MaxSamples == 3             \* sampler runs of the process

StartTick == 14 * 144 + 59  \* a Sunday, 09:50
PriorRuns == {0, 1, HistoryLimit - 1}
SampleSteps == -2 .. 3      \* values of Math.round((Math.random() - 0.45) * 5)

SamplerLot(id, name) ==
    [id |-> id, name |-> name, permit_types |-> <<"A">>,
     metadata |-> [osmId |-> Undefined, spaceCount |-> Nil, occupiedCount |-> Nil,
                   pricing |-> Undefined, tags |-> NoTags]]
SamplerLots == {<<SamplerLot("lot-a", "Lot A")>>,
                <<SamplerLot("lot-a", "Lot A"), SamplerLot("lot-b", "Lot B")>>}
SamplerStalls == {<<>>, <<[status |-> "open"]>>,
                  <<[status |-> "open"], [status |-> "occupied"]>>}

\* the files after n runs that ended just before StartTick
PriorCapLog(n) ==
    [i \in 1..n |-> [capacity |-> 200, occupied |-> 80, source |-> "mock",
                     observed_at |-> StartTick - n + i - 1]]
PriorHistory(n, counts) ==
    [i \in 1..n |-> [weekday |-> weekdayOf(StartTick - n + i - 1),
                     slot |-> slotOf(StartTick - n + i - 1),
                     open |-> counts.open, occupied |-> counts.occupied,
                     detected_at |-> StartTick - n + i - 1]]

LotIdsOf(lotList) == {lotList[i].id : i \in DOMAIN lotList}

\* capacity.json as the seed script leaves it for lots with one space
SeededCapLog(occ) ==
    <<[capacity |-> 1, occupied |-> occ, source |-> "seed", observed_at |-> 0]>>

\* the data directory at the start of the process: one lot whose files were
\* left by earlier runs of the job (or without capacity.json), or two lots
\* as seeded; the longest history is that of a lot without stalls
SamplerFiles(lotList, stallsMap) ==
    IF Len(lotList) = 1
    THEN {[cap |-> Nil, snaps |-> Nil]}
           \cup {[cap |-> <<IF n = 0 THEN <<>>
                            ELSE [id \in LotIdsOf(lotList) |-> PriorCapLog(n)]>>,
                  snaps |-> IF n = 0 THEN Nil
                            ELSE <<[id \in LotIdsOf(lotList) |->
                                      PriorHistory(n, summarizeStalls(GetOr(stallsMap, id)))]>>] :
                    n \in IF GetOr(stallsMap, "lot-a") = <<>> THEN PriorRuns
                          ELSE PriorRuns \ {HistoryLimit - 1}}
    ELSE {[cap |-> <<[id \in LotIdsOf(lotList) |->
                        SeededCapLog(IF id = "lot-a" THEN occ ELSE 0)]>>,
           snaps |-> << <<>> >>] : occ \in {0, 1}}

SamplerInit ==
    /\ lots \in SamplerLots
    /\ \E st \in SamplerStalls : stallsByLot = ("lot-a" :> st)
    /\ lotsFile = <<lots>> /\ stallsFile = <<stallsByLot>> /\ imagesFile = Nil
    /\ \E f \in SamplerFiles(lots, stallsByLot) :
          capacityFile = f.cap /\ snapshotsFile = f.snaps
    /\ capacity = readJSON(capacityFile, <<>>)
    /\ snapshots = readJSON(snapshotsFile, <<>>)
    /\ now = StartTick
    /\ supabase = FALSE
    /\ supabaseLotsCache = EmptyCache
    /\ pc = [at |-> "idle", id |-> ""] /\ startedAt = <<>> /\ reply = Nil
    /\ response = Nil
    /\ ResolveIdle
    /\ JoinIdle
    /\ KernelIdle
    /\ ViewIdle

\* the scheduled job, lines 583-606: it reads the four files and writes two
SamplerTick ==
    /\ now < StartTick + MaxSamples
    /\ pc.at # "yielded"
    /\ now' = now + 1
    /\ IF capacityFile = Nil
       THEN UNCHANGED fileVars                  \* `if (!capacityFileExists) return`
       ELSE LET lotList == readJSON(lotsFile, <<>>)
            IN \E deltas \in [DOMAIN lotList -> SampleSteps] :
                 /\ capacityFile' =
                      <<sampleCapacity(readJSON(capacityFile, <<>>), lotList, deltas, now)>>
                 /\ snapshotsFile' =
                      <<sampleSnapshots(readJSON(snapshotsFile, <<>>), lotList,
                                        readJSON(stallsFile, <<>>), now)>>
                 /\ UNCHANGED << lotsFile, stallsFile, imagesFile >>
    /\ UNCHANGED << lots, stallsByLot, capacity, supabase, supabaseLotsCache,
                    pc, startedAt, reply, response >>
    /\ UNCHANGED resolveVars /\ UNCHANGED joinVars /\ UNCHANGED historyVars
    /\ UNCHANGED kernelVars /\ UNCHANGED viewVars

\* GET /api/lots/:id/forecast, answered from the process's `snapshots`
SamplerForecast ==
    /\ \E lotId \in {"lot-a"}, weekday \in {Nil, <<0>>},
          slot \in {Undefined, "09:50"} :
          response' = <<getForecast(snapshots, lotId, weekday, slot, weekdayOf(now))>>
    /\ UNCHANGED << lots, stallsByLot, capacity, supabase, supabaseLotsCache, now,
                    pc, startedAt, reply >>
    /\ UNCHANGED resolveVars /\ UNCHANGED joinVars /\ UNCHANGED historyVars
    /\ UNCHANGED kernelVars /\ UNCHANGED fileVars /\ UNCHANGED viewVars

\* the stalls a request posts for lot-a
SampledStalls == <<[status |-> "occupied"]>>

\* POST /api/lots/lot-a/stalls, lines 278-284
SamplerStallsWritten ==
    /\ LET body == [isArray |-> TRUE, items |-> SampledStalls]
       IN /\ stallsByLot' = postStalls(stallsByLot, "lot-a", body)
          /\ stallsFile' = <<stallsByLot'>>
          /\ response' = <<postStallsResponse("lot-a", body)>>
    /\ UNCHANGED << lots, capacity, supabase, supabaseLotsCache, now, pc,
                    startedAt, reply >>
    /\ UNCHANGED << lotsFile, capacityFile, snapshotsFile, imagesFile >>
    /\ UNCHANGED resolveVars /\ UNCHANGED joinVars /\ UNCHANGED historyVars
    /\ UNCHANGED kernelVars /\ UNCHANGED viewVars

\* GET /api/lots/:id of a stored lot arrives and runs to the await of line
\* 220, where fetchSupabaseData has returned null (line 79)
SamplerSummary ==
    /\ pc.at = "idle"
    /\ \E i \in DOMAIN lots : pc' = [at |-> "yielded", id |-> lots[i].id]
    /\ reply' = Returned(Returns(Nil), "unconfigured", 1)
    /\ UNCHANGED << lots, stallsByLot, capacity, supabase, supabaseLotsCache, now,
                    startedAt, response >>
    /\ UNCHANGED resolveVars
    /\ UNCHANGED joinVars /\ UNCHANGED historyVars
    /\ UNCHANGED kernelVars /\ UNCHANGED fileVars /\ UNCHANGED viewVars

\* the read resumes, lines 221-234: summarizeLot(l, null) of the lot, the
\* stalls and the capacity log stored now
SamplerSummaryResumes ==
    /\ pc.at = "yielded"
    /\ \E i \in DOMAIN lots :
          /\ lots[i].id = pc.id
          /\ summary' = <<summarizeLot(lots[i], reply[2], stallsByLot, capacity)>>
    /\ pc' = [pc EXCEPT !.at = "done"]
    /\ reply' = Nil
    /\ UNCHANGED << lots, stallsByLot, capacity, supabase, supabaseLotsCache, now,
                    startedAt, response >>
    /\ UNCHANGED << supaData, stallCounts, onlyLot >>
    /\ UNCHANGED joinVars /\ UNCHANGED historyVars
    /\ UNCHANGED kernelVars /\ UNCHANGED fileVars /\ UNCHANGED viewVars

SamplerNext ==
    \/ SamplerTick
    \/ SamplerForecast
    \/ SamplerStallsWritten
    \/ SamplerSummary
    \/ SamplerSummaryResumes

SamplerSpec == SamplerInit /\ [][SamplerNext]_vars

------------------------------------------------------------------------------
(* Claims about the sampler, checked under SamplerSpec *)

StoredHistory(id) == GetOr(readJSON(snapshotsFile, <<>>), id)
SamplerRan == capacityFile # Nil /\ now > StartTick

\* C24: after any number of sampler runs the stored history of each lot has
\* at most 2000 entries, and they are the most recently appended ones in
\* append order: consecutive runs, ending with the latest run.
C24_HistoryBounded ==
    \A id \in DOMAIN readJSON(snapshotsFile, <<>>) :
        LET h == StoredHistory(id)
        IN /\ Len(h) <= HistoryLimit
           /\ \A i \in 1 .. Len(h) - 1 : h[i + 1].detected_at = h[i].detected_at + 1
           /\ (SamplerRan /\ id \in LotIdsOf(lots)) =>
                 (h # <<>> /\ h[Len(h)].detected_at = now - 1)

\* a full history has dropped its two oldest entries
C24_Witness ==
    /\ SamplerRan
    /\ Len(StoredHistory("lot-a")) = HistoryLimit
    /\ StoredHistory("lot-a")[1].detected_at = StartTick - (HistoryLimit - 1) + 2

\* C26: a forecast answered by the process is the forecast of the stored
\* history, the sampler's appended observations included, and a lot summary
\* reports the last entry of the stored capacity log as its latest capacity.
C26_SamplesAreServed ==
    [][ /\ SamplerForecast =>
              response'[1] = getForecast(readJSON(snapshotsFile, <<>>),
                                         response'[1].lotId, <<response'[1].weekday>>,
                                         response'[1].slot, weekdayOf(now))
        /\ SamplerSummaryResumes =>
              LET log == GetOr(readJSON(capacityFile, <<>>), summary'[1].id)
              IN log # <<>> => summary'[1].latestCap = log[Len(log)] ]_vars

------------------------------------------------------------------------------
(* Concurrent refreshes of the cache, checked under ServerSpec *)

\* C25: the cache never moves backwards: no step lowers
\* supabaseLotsCache.fetchedAt, so the snapshot of a refresh that started
\* earlier never replaces the snapshot of a refresh that started later.
C25_CacheMonotonic ==
    [][supabaseLotsCache'.fetchedAt >= supabaseLotsCache.fetchedAt]_vars

------------------------------------------------------------------------------
(* Specification of one unfiltered listing: the stored lots and the rows   *)
(* of the external snapshot are drawn in Init; GET /api/lots without       *)
(* query parameters yields at `await fetchSupabaseData()` and lists the    *)
(* lots stored when it resumes; a lot can be posted meanwhile.             *)
(* `response` is the response sent last.                                   *)

MaxRows == 2        \* rows of the external parking_lot table

ListLot(id, name, osmId) ==
    [id |-> id, name |-> name, permit_types |-> <<"A">>,
     metadata |-> [osmId |-> osmId, spaceCount |-> <<3>>, occupiedCount |-> <<1>>,
                   pricing |-> Undefined, tags |-> NoTags]]

\* a lot seeded from OSM way/1, and a lot without OSM id
ListLocalLots ==
    {<<>>,
     <<ListLot("lot-a", "Lot A", "way/1")>>,
     <<ListLot("lot-way-2", "Lot B", Undefined)>>,
     <<ListLot("lot-a", "Lot A", "way/1"), ListLot("lot-way-2", "Lot B", Undefined)>>}

ListRows ==
    [lot_name : {"Lot A", "Lot X", "lot x"},
     location : {Null, "way/1", "way/2", "way-2"},
     capacity : {<<5>>}, occupancy : {<<2>>}, pricing : {Null}]

\* row lists without a repeated row
ListRowSeqs ==
    {s \in SeqsUpTo(ListRows, MaxRows) : \A i, j \in DOMAIN s : i # j => s[i] # s[j]}

RawOfRows(rows) ==
    [lotRows |-> rows, spotRows |-> <<>>, accessRows |-> <<>>, permitRows |-> <<>>]

\* the cache an earlier request left: none, or one or no row fetched at time 1
ListPriorCaches ==
    {EmptyCache}
      \cup {[fetchedAt |-> 1, list |-> snapshotList(RawOfRows(rows))] :
               rows \in {s \in ListRowSeqs : Len(s) <= 1}}

ListInit ==
    /\ lots \in ListLocalLots
    /\ stallsByLot = <<>>
    /\ capacity = <<>>
    /\ supabase = TRUE
    /\ supabaseLotsCache \in ListPriorCaches
    /\ now \in {2, 1 + SUPABASE_CACHE_MS}
    /\ pc = "idle" /\ startedAt = 0 /\ reply = Nil
    /\ response = Nil
    /\ ResolveIdle
    /\ JoinIdle
    /\ HistoryIdle
    /\ KernelIdle
    /\ lotsFile = <<lots>>
    /\ stallsFile = Nil /\ capacityFile = Nil /\ snapshotsFile = Nil
    /\ imagesFile = Nil
    /\ ViewIdle

\* GET /api/lots arrives and runs to `await fetchSupabaseData()` (lines
\* 174-176): fetchSupabaseData returns the cache (lines 80-83) or has sent the
\* four queries (lines 86-91); in both cases the handler yields
ListArrives ==
    /\ pc = "idle"
    /\ IF cacheHit(supabaseLotsCache, now)
       THEN /\ pc' = "yielded"
            /\ reply' = Returned(Returns(<<supabaseLotsCache>>), "hit", 1)
            /\ UNCHANGED startedAt
       ELSE /\ pc' = "awaiting"
            /\ startedAt' = now
            /\ reply' = Pending
    /\ UNCHANGED << lots, stallsByLot, capacity, supabase, supabaseLotsCache, now,
                    response >>
    /\ UNCHANGED resolveVars
    /\ UNCHANGED joinVars /\ UNCHANGED historyVars
    /\ UNCHANGED kernelVars /\ UNCHANGED fileVars /\ UNCHANGED viewVars

\* the lot a request posts: its name is that of an external row
ListedBody == [name |-> "Lot X", permit_types |-> Nil, metadata |-> Nil]

\* POST /api/lots, lines 270-276; nanoid(10) returns an id no stored lot has.
\* The handler is called from the event loop, not between the promise job of
\* a settled fetch and the listing queued behind it
ListLotPosted ==
    /\ ~(pc = "yielded" /\ reply[3] \in {"ok", "error"})
    /\ \E id \in NanoIds :
          /\ \A i \in DOMAIN lots : lots[i].id # id
          /\ lots' = Append(lots, postLot(id, ListedBody))
          /\ lotsFile' = <<lots'>>
          /\ response' = <<postLotResponse(postLot(id, ListedBody))>>
    /\ UNCHANGED << stallsByLot, capacity, supabase, supabaseLotsCache, now, pc,
                    startedAt, reply >>
    /\ UNCHANGED << stallsFile, capacityFile, snapshotsFile, imagesFile >>
    /\ UNCHANGED resolveVars /\ UNCHANGED joinVars /\ UNCHANGED historyVars
    /\ UNCHANGED kernelVars /\ UNCHANGED viewVars

\* the handler resumes with what fetchSupabaseData returned to it and builds
\* the listing from the lots stored now (lines 177-216)
ListResumes ==
    /\ pc = "yielded"
    /\ supaData' = reply[2]
    /\ response' = <<[op |-> "GET lots", status |-> 200,
                      body |-> listLots(reply[2], lots, stallsByLot, capacity)]>>
    /\ pc' = "done"
    /\ reply' = Nil
    /\ UNCHANGED << lots, stallsByLot, capacity, supabase, supabaseLotsCache, now,
                    startedAt >>
    /\ UNCHANGED << summary, stallCounts, onlyLot >>
    /\ UNCHANGED joinVars /\ UNCHANGED historyVars
    /\ UNCHANGED kernelVars /\ UNCHANGED fileVars /\ UNCHANGED viewVars

\* the external source answers the four queries
ListSourceAnswers ==
    /\ pc = "awaiting" /\ reply = Pending
    /\ \E rows \in ListRowSeqs : reply' = <<"ok", RawOfRows(rows)>>
    /\ UNCHANGED << lots, stallsByLot, capacity, supabase, supabaseLotsCache, now,
                    pc, startedAt, response >>
    /\ UNCHANGED resolveVars /\ UNCHANGED joinVars /\ UNCHANGED historyVars
    /\ UNCHANGED kernelVars /\ UNCHANGED fileVars /\ UNCHANGED viewVars

\* a query errors or the call rejects
ListSourceFails ==
    /\ pc = "awaiting" /\ reply = Pending
    /\ reply' = Failure
    /\ UNCHANGED << lots, stallsByLot, capacity, supabase, supabaseLotsCache, now,
                    pc, startedAt, response >>
    /\ UNCHANGED resolveVars /\ UNCHANGED joinVars /\ UNCHANGED historyVars
    /\ UNCHANGED kernelVars /\ UNCHANGED fileVars /\ UNCHANGED viewVars

\* the queries have settled and fetchSupabaseData runs to its end: it stores
\* and returns the snapshot, or catches the error and returns the cache (lines
\* 93-161); the listing is queued to resume
ListFetchReturns ==
    /\ pc = "awaiting" /\ reply # Pending
    /\ LET outcome == IF reply = Failure THEN fetchFailed(supabaseLotsCache)
                      ELSE fetchSucceeded(reply[2], startedAt)
           how == IF reply = Failure THEN "error" ELSE "ok"
       IN /\ supabaseLotsCache' = outcome.cache
          /\ reply' = Returned(outcome, how, 1)
    /\ pc' = "yielded"
    /\ UNCHANGED << lots, stallsByLot, capacity, supabase, now, startedAt, response >>
    /\ UNCHANGED resolveVars
    /\ UNCHANGED joinVars /\ UNCHANGED historyVars
    /\ UNCHANGED kernelVars /\ UNCHANGED fileVars /\ UNCHANGED viewVars

ListNext ==
    \/ ListArrives
    \/ ListLotPosted
    \/ ListResumes
    \/ ListSourceAnswers
    \/ ListSourceFails
    \/ ListFetchReturns

ListSpec == ListInit /\ [][ListNext]_vars

------------------------------------------------------------------------------
(* Claims about the listing, checked under ListSpec *)

Listed == response # Nil /\ response[1].op = "GET lots"
Listing == response[1].body

\* the lot of the listing carries the entry's provenance
Represents(lot, e) == lot.metadata.supabase = <<supabaseMeta(e)>>

\* C27: every entry of the external snapshot is represented exactly once in
\* the unfiltered listing, merged into a stored lot or appended as a lot of
\* its own; this includes entries whose location is null.
C27_EveryEntryListedOnce ==
    Listed =>
        \A k \in DOMAIN supaData[1].list :
            Cardinality({i \in DOMAIN Listing :
                            Represents(Listing[i], supaData[1].list[k])}) = 1

\* C28: the ids of the lots of one listing are pairwise distinct.
C28_ListingIdsDistinct ==
    Listed =>
        \A i, j \in DOMAIN Listing : i # j => Listing[i].id # Listing[j].id

------------------------------------------------------------------------------
(* The lot detail page, LotDetailMap.tsx:259-319: the counts of one lot.   *)
(* pointInRing, geometryContainsPoint and computeCentroidLonLat of         *)
(* LotDetailMap.tsx:153-212 are the code of MapView.tsx.                   *)

\* knownOsmIds, MapView.tsx:263-272
knownOsmIdsOf(summaries) ==
    {summaries[i].metadata.osmId :
        i \in {k \in DOMAIN summaries : Truthy(summaries[k].metadata.osmId)}}

\* lotFeature, LotDetailMap.tsx:265-270: the first feature with the lot's OSM id
lotFeatureOf(features, lot) ==
    LET osmId == lot.metadata.osmId
        first == FirstIndex(features,
                            {i \in DOMAIN features : features[i].properties.id = osmId})
    IN IF ~Truthy(osmId) \/ first = 0 THEN Nil ELSE <<features[first]>>

\* lotSpaces, LotDetailMap.tsx:272-295: the spaces whose centre lies in the
\* lot, [throws, value]; the filter ends with the TypeError of a centre or of
\* a containment test that throws
RECURSIVE lotSpacesOf(_, _)
lotSpacesOf(spaces, lotFeature) ==
    IF spaces = <<>> THEN [throws |-> FALSE, value |-> <<>>]
    ELSE LET center == computeCentroidLonLat(spaces[1].geometry)
             TypeError == [throws |-> TRUE, value |-> <<>>]
         IN IF center.throws THEN TypeError
            ELSE IF center.value = Nil THEN lotSpacesOf(Tail(spaces), lotFeature)
            ELSE Only({IF inLot.throws THEN TypeError
                       ELSE Only({IF rest.throws THEN rest
                                  ELSE [throws |-> FALSE,
                                        value |-> (IF inLot.value THEN <<spaces[1]>>
                                                   ELSE <<>>) \o rest.value] :
                                    rest \in {lotSpacesOf(Tail(spaces), lotFeature)}}) :
                         inLot \in {geometryContainsPoint(lotFeature.geometry,
                                                          center.value[1])}})

\* the counts computed at LotDetailMap.tsx:299-312 from the filtered spaces
countsOfSpaces(lotSpaces, occupiedIds) ==
    LET total == Len(lotSpaces)
        occupied == Cardinality({i \in DOMAIN lotSpaces :
                                    lotSpaces[i].properties.id \in occupiedIds})
    IN IF total = 0 THEN Nil
       ELSE <<[total |-> total, occupied |-> occupied,
               open |-> Max(total - occupied, 0), unknown |-> 0]>>

\* the counts the effect of LotDetailMap.tsx:297-319 passes to onCountsChange:
\* [throws, value], the value Nil for null
detailCountsOf(spaces, features, lot, slots) ==
    LET lotFeature == lotFeatureOf(features, lot)
    IN IF lotFeature = Nil THEN [throws |-> FALSE, value |-> Nil]
       ELSE Only({IF filtered.throws THEN [throws |-> TRUE, value |-> Nil]
                  ELSE [throws |-> FALSE,
                        value |-> countsOfSpaces(filtered.value, occupiedSet(slots))] :
                    filtered \in {lotSpacesOf(spaces, lotFeature[1])}})

------------------------------------------------------------------------------
(* Specification of the two views over the same features and feed *)

DetailSummary(k) ==
    [id |-> IF k = 1 THEN "lot-1" ELSE "lot-2", metadata |-> [osmId |-> LotIds[k]]]
DetailSummaries == {<<DetailSummary(1)>>, <<DetailSummary(2)>>,
                    <<DetailSummary(1), DetailSummary(2)>>}

DetailInit ==
    /\ spacesRaw \in SpaceFeatureSeqs
    /\ lotsGeo \in LotFeatureSeqs
    /\ occupancy \in Feeds
    /\ lotSummaries \in DetailSummaries
    /\ knownOsmIds = knownOsmIdsOf(lotSummaries)
    /\ occupancyByLot = Nil
    /\ seedLots = Nil
    /\ detailCounts = Nil
    /\ occupancyFetchedAt = Null /\ lotSnapshots = <<>> /\ effectPending = FALSE
    /\ lots = <<>> /\ stallsByLot = <<>> /\ capacity = <<>>
    /\ ServerIdle
    /\ ResolveIdle
    /\ HistoryIdle
    /\ KernelIdle
    /\ FilesIdle

\* MapView computes occupancyByLot
DetailMapView ==
    /\ occupancyByLot = Nil
    /\ occupancyByLot' = <<occupancyByLotOf(spacesRaw, lotsGeo, knownOsmIds, occupancy)>>
    /\ UNCHANGED << spacesRaw, lotsGeo, knownOsmIds, occupancy, seedLots >>
    /\ UNCHANGED serverVars /\ UNCHANGED resolveVars /\ UNCHANGED historyVars
    /\ UNCHANGED kernelVars /\ UNCHANGED fileVars /\ UNCHANGED viewVars

\* LotDetailMap reports the counts of one of the lots
DetailCounts ==
    /\ detailCounts = Nil
    /\ \E i \in DOMAIN lotSummaries :
          detailCounts' = <<[lot |-> lotSummaries[i],
                             counts |-> detailCountsOf(spacesRaw, lotsGeo,
                                                       lotSummaries[i], occupancy)]>>
    /\ UNCHANGED << lotSummaries, occupancyFetchedAt, lotSnapshots, effectPending >>
    /\ UNCHANGED serverVars /\ UNCHANGED resolveVars /\ UNCHANGED joinVars
    /\ UNCHANGED historyVars /\ UNCHANGED kernelVars /\ UNCHANGED fileVars

DetailNext == DetailMapView \/ DetailCounts

DetailSpec == DetailInit /\ [][DetailNext]_vars

\* C30: for the same space features, lot features and feed, the counts the
\* detail page reports for a lot are the counts MapView's occupancyByLot holds
\* for the lot's OSM id (none reported where the map has no entry).
C30_DetailMatchesMap ==
    (/\ occupancyByLot # Nil /\ ~occupancyByLot[1].throws
     /\ detailCounts # Nil /\ ~detailCounts[1].counts.throws) =>
        LET osmId == detailCounts[1].lot.metadata.osmId
            map == occupancyByLot[1].value
        IN detailCounts[1].counts.value = IF osmId \in DOMAIN map THEN <<map[osmId]>>
                                          ELSE Nil

------------------------------------------------------------------------------
(* MapView's snapshot-sync effect, MapView.tsx:355-378, and the store it   *)
(* writes, part_000:26-36.                                                 *)

\* lotSummariesByOsmId.get(osmId), MapView.tsx:253-262: the last summary with
\* that OSM id, Nil when there is none
summaryByOsmId(summaries, osmId) ==
    LET last == LastIndex(summaries,
                          {i \in DOMAIN summaries :
                              /\ Truthy(summaries[i].metadata.osmId)
                              /\ summaries[i].metadata.osmId = osmId})
    IN IF last = 0 THEN Nil ELSE <<summaries[last]>>

\* new Date().toISOString() at clock reading t.  The web client's readings
\* are kept relative to the present: 0 is the present reading, -k the reading
\* k advances of the clock ago.
isoString(t) == <<"iso", t>>

\* occupancyFetchedAt || new Date().toISOString(), line 357
observedAtOf(fetchedAt, t) == IF Truthy(fetchedAt) THEN fetchedAt ELSE isoString(t)

\* the `snapshots` object the effect builds, lines 358-373: one entry per lot
\* whose stored snapshot differs in observedAt or in a count
syncSnapshots(occ, summaries, fetchedAt, store, t) ==
    LET observedAt == observedAtOf(fetchedAt, t)
        stale == {osmId \in DOMAIN occ :
                    LET s == summaryByOsmId(summaries, osmId)
                    IN /\ s # Nil
                       /\ ~ (/\ s[1].id \in DOMAIN store
                             /\ store[s[1].id].observedAt = observedAt
                             /\ store[s[1].id].counts = occ[osmId])}
        osmOf(id) == CHOOSE osmId \in stale : summaryByOsmId(summaries, osmId)[1].id = id
    IN [id \in {summaryByOsmId(summaries, osmId)[1].id : osmId \in stale} |->
            [counts |-> occ[osmOf(id)], observedAt |-> observedAt]]

\* setLotSnapshots, part_000:32-35: { ...state.lotSnapshots, ...snapshots }
setLotSnapshots(store, snaps) ==
    [id \in DOMAIN store \cup DOMAIN snaps |->
        IF id \in DOMAIN snaps THEN snaps[id] ELSE store[id]]

------------------------------------------------------------------------------
(* Specification of the effect: occupancyByLot, the summaries and the      *)
(* feed's fetchedAt are drawn in Init and never change.  The effect runs   *)
(* after the first render and after every render in which a dependency     *)
(* changed; a write to the store gives MapView a new lotSnapshots object,   *)
(* which is one of the effect's dependencies.  The clock never shows a     *)
(* reading twice: when it advances, every reading stored before moves one  *)
(* step into the past and the present reading is a new one.                *)

MaxAge == 2         \* advances of the clock a stored reading is followed for

SyncCounts == {[total |-> 2, occupied |-> 1, open |-> 1, unknown |-> 0],
               [total |-> 1, occupied |-> 0, open |-> 1, unknown |-> 0]}
SyncOccupancy ==
    UNION {[ids -> SyncCounts] : ids \in SUBSET {LotIds[1], LotIds[2]}}

SyncInit ==
    /\ \E occ \in SyncOccupancy : occupancyByLot = <<[throws |-> FALSE, value |-> occ]>>
    /\ lotSummaries \in DetailSummaries
    /\ occupancyFetchedAt \in {Null, "2025-10-25T12:00:00.000Z"}
    /\ lotSnapshots = <<>>
    /\ effectPending = TRUE
    /\ detailCounts = Nil
    /\ spacesRaw = <<>> /\ lotsGeo = <<>> /\ knownOsmIds = {} /\ occupancy = <<>>
    /\ seedLots = Nil
    /\ lots = <<>> /\ stallsByLot = <<>> /\ capacity = <<>>
    /\ ServerIdle
    /\ ResolveIdle
    /\ HistoryIdle
    /\ KernelIdle
    /\ FilesIdle

\* one run of the effect
SyncEffect ==
    /\ effectPending
    /\ LET snaps == syncSnapshots(occupancyByLot[1].value, lotSummaries, occupancyFetchedAt,
                                  lotSnapshots, now)
       IN IF DOMAIN occupancyByLot[1].value = {} \/ DOMAIN snaps = {}
          THEN \* `if (!occupancyByLot.size) return`, or nothing to write
               /\ effectPending' = FALSE
               /\ UNCHANGED lotSnapshots
          ELSE \* setLotSnapshots(snapshots): the store changes, MapView renders
               \* again and the effect is scheduled again
               /\ lotSnapshots' = setLotSnapshots(lotSnapshots, snaps)
               /\ effectPending' = TRUE
    /\ UNCHANGED << lotSummaries, occupancyFetchedAt, detailCounts >>
    /\ UNCHANGED serverVars /\ UNCHANGED resolveVars /\ UNCHANGED joinVars
    /\ UNCHANGED historyVars /\ UNCHANGED kernelVars /\ UNCHANGED fileVars

\* the stored snapshots one advance of the clock later
agedSnapshots(store) ==
    [id \in DOMAIN store |->
        [store[id] EXCEPT !.observedAt = isoString(store[id].observedAt[2] - 1)]]

\* the wall clock advances between two renders; a feed with fetchedAt leaves
\* no clock reading in the store
ClockAdvances ==
    /\ IF Truthy(occupancyFetchedAt)
       THEN UNCHANGED lotSnapshots
       ELSE /\ \A id \in DOMAIN lotSnapshots : lotSnapshots[id].observedAt[2] > -MaxAge
            /\ lotSnapshots' = agedSnapshots(lotSnapshots)
    /\ UNCHANGED << lotSummaries, occupancyFetchedAt, effectPending, detailCounts >>
    /\ UNCHANGED serverVars
    /\ UNCHANGED resolveVars /\ UNCHANGED joinVars /\ UNCHANGED historyVars
    /\ UNCHANGED kernelVars /\ UNCHANGED fileVars

SyncNext == SyncEffect \/ ClockAdvances

SyncSpec == SyncInit /\ [][SyncNext]_vars

\* React runs a scheduled effect
FairSyncSpec == SyncSpec /\ WF_vars(SyncEffect)

\* C29: with unchanged inputs the effect reaches a fixed point: from some
\* point on no run of the effect is scheduled (it has stopped writing to the
\* store), also when the feed has no fetchedAt and the clock advances.
C29_SyncReachesFixedPoint == <>[](~effectPending)

====
